---- MODULE Spec2Model ----
(***************************************************************************)
(* Model of the riverbed region scanner: the k-way heap merge of per-file  *)
(* hfile.Scanner cursors (scanner/heap.go), the HBase cell comparator      *)
(* (scanner/comparator.go), the per-row delete tracker (deleteTracker) and *)
(* RegionScanner.Next (scanner/scanner.go).                                *)
(*                                                                         *)
(* Byte strings are sequences of naturals.  A file is the sequence of      *)
(* cells its hfile.Scanner yields; a scanner is a position in that         *)
(* sequence plus an error flag.  One step of the model is one iteration of *)
(* the loop in RegionScanner.Next (peek, heap advance, then exactly one of *)
(* the loop's exits or continues).                                         *)
(***************************************************************************)
EXTENDS Integers, Sequences, FiniteSets, TLC

VARIABLES
    files,          \* files[f]: the cells scanner f yields, in file order
    failAt,         \* failAt[f]: position whose read fails (0: never)
    opts,           \* Options: MaxVersions, EndKey
    pc,             \* "new" before NewRegionScanner, "ready" after, "failed"
    scan,           \* scan[f]: hfile.Scanner f: [pos, err]
    kv,             \* kvHeap: [h, cur, errVal]
    deletes,        \* deleteTracker: [familyDeleteTS, columnDeleteTS, versionDeletes]
    currentRow,     \* RegionScanner.currentRow
    versionCounts,  \* RegionScanner.versionCounts (qualifier -> count)
    cell,           \* RegionScanner.cell
    err,            \* RegionScanner.err (0: nil, else the failed scanner)
    ret,            \* what the last loop iteration did: "none", "continue", "true", "false"
    trace,          \* history: every cell dequeued so far, with what became of it
    disk,           \* the bytes behind the io.ReaderAt of one HFile
    rd,             \* hfile.Reader: what Open loaded (index, codec, flags)
    hs,             \* hfile.Scanner: [stack, iter, cell, err]
    hlog,           \* history of the hfile operations: cells yielded, blocks read
    blk,            \* outcome of the last ReadBlock
    bf              \* hfile.BloomFilter and the outcome of the last MayContain

\* The variables of the region scanner, and those of the HFile engine.
rvars == <<files, failAt, opts, pc, scan, kv, deletes, currentRow,
           versionCounts, cell, err, ret, trace>>

hvars == <<disk, rd, hs, hlog, blk, bf>>

vars == <<files, failAt, opts, pc, scan, kv, deletes, currentRow,
          versionCounts, cell, err, ret, trace, disk, rd, hs, hlog, blk, bf>>

-----------------------------------------------------------------------------
(* Bounds of the model.                                                    *)

NumFiles == 2       \* input scanners in Spec
MaxCells == 3       \* cells in all files together in Spec
MaxTs == 1          \* timestamps are 0..MaxTs in Spec
MaxMV == 2          \* Options.MaxVersions is 0..MaxMV

MergeFiles == 3     \* input scanners in SpecMerge
MergeCells == 4     \* cells in all files together in SpecMerge
MergeTs == 1        \* timestamps are 0..MergeTs in SpecMerge

ErrFiles == 2       \* input scanners in SpecErr
ErrCells == 3       \* cells in all files together in SpecErr

-----------------------------------------------------------------------------
(* Cells.                                                                  *)

CellTypePut == 4
CellTypeDelete == 8
CellTypeDeleteColumn == 12
CellTypeDeleteFamily == 14

CellTypes == {CellTypePut, CellTypeDelete, CellTypeDeleteColumn, CellTypeDeleteFamily}

\* A store holds the files of one column family: one family value.
Families == {<<1>>}
Rows == {<<1>>, <<2>>}
Qualifiers == {<<1>>, <<2>>}

Cell(row, fam, qual, ts, type) ==
    [Row |-> row, Family |-> fam, Qualifier |-> qual, Timestamp |-> ts, Type |-> type]

NoCell == [Type |-> 0]

Min(a, b) == IF a < b THEN a ELSE b

\* bytes.Compare: lexicographic on unsigned bytes, a prefix sorts first.
RECURSIVE BytesCompareFrom(_, _, _)
BytesCompareFrom(a, b, i) ==
    IF i > Min(Len(a), Len(b))
    THEN IF Len(a) < Len(b) THEN -1 ELSE IF Len(a) > Len(b) THEN 1 ELSE 0
    ELSE IF a[i] < b[i] THEN -1
    ELSE IF a[i] > b[i] THEN 1
    ELSE BytesCompareFrom(a, b, i + 1)

BytesCompare(a, b) == BytesCompareFrom(a, b, 1)

CompareCell(a, b) ==
    LET r == BytesCompare(a.Row, b.Row)
        f == BytesCompare(a.Family, b.Family)
        q == BytesCompare(a.Qualifier, b.Qualifier)
    IN  IF r # 0 THEN r
        ELSE IF f # 0 THEN f
        ELSE IF q # 0 THEN q
        ELSE IF a.Timestamp # b.Timestamp
             THEN IF a.Timestamp > b.Timestamp THEN -1 ELSE 1
        ELSE IF a.Type # b.Type
             THEN IF a.Type > b.Type THEN -1 ELSE 1
        ELSE 0

\* the scanner order compared before the cell type
CompareCellWithOrderMutOrderBeforeType(a, b, aOrder, bOrder) ==
    LET cmp == CompareCell([a EXCEPT !.Type = 0], [b EXCEPT !.Type = 0])
    IN  IF cmp # 0 THEN cmp
        ELSE IF aOrder < bOrder THEN -1
        ELSE IF aOrder > bOrder THEN 1
        ELSE CompareCell(a, b)

\* the tie-break with the order comparison the wrong way round
CompareCellWithOrderMutOlderFirst(a, b, aOrder, bOrder) ==
    LET cmp == CompareCell(a, b)
    IN  IF cmp # 0 THEN cmp
        ELSE IF aOrder > bOrder THEN -1
        ELSE IF aOrder < bOrder THEN 1
        ELSE 0

CompareCellWithOrder(a, b, aOrder, bOrder) ==
    LET cmp == CompareCell(a, b)
    IN  IF cmp # 0 THEN cmp
        ELSE IF aOrder < bOrder THEN -1
        ELSE IF aOrder > bOrder THEN 1
        ELSE 0

-----------------------------------------------------------------------------
(* hfile.Scanner, as the region scanner sees it: Next, Cell, Err.          *)

\* Scanner.Cell(): the current cell of scanner f.
ScannerCell(sc, f) == files[f][sc[f].pos]

\* Scanner.Next(): a failed scanner stays failed; the read of position
\* failAt[f] fails; otherwise the cursor advances, and reports whether it
\* stands on a cell.
ScannerNext(sc, f) ==
    IF sc[f].err THEN [scan |-> sc, ok |-> FALSE]
    ELSE IF failAt[f] = sc[f].pos + 1
    THEN [scan |-> [sc EXCEPT ![f].err = TRUE], ok |-> FALSE]
    ELSE IF sc[f].pos + 1 <= Len(files[f])
    THEN [scan |-> [sc EXCEPT ![f].pos = @ + 1], ok |-> TRUE]
    ELSE [scan |-> [sc EXCEPT ![f].pos = Len(files[f]) + 1], ok |-> FALSE]

-----------------------------------------------------------------------------
(* entryHeap and container/heap.  A heap is a sequence of scanner indexes; *)
(* indexes i, j below are 0-based as in the Go code.                       *)

\* scannerEntry.order of scanner f: its index in the slice, from 0.
EntryOrder(f) == f - 1

entryHeapLess(hp, sc, i, j) ==
    CompareCellWithOrder(ScannerCell(sc, hp[i + 1]), ScannerCell(sc, hp[j + 1]),
                         EntryOrder(hp[i + 1]), EntryOrder(hp[j + 1])) < 0

entryHeapSwap(hp, i, j) ==
    [hp EXCEPT ![i + 1] = hp[j + 1], ![j + 1] = hp[i + 1]]

\* container/heap.up
RECURSIVE heapUp(_, _, _)
heapUp(hp, sc, j) ==
    LET i == IF j = 0 THEN 0 ELSE (j - 1) \div 2
    IN  IF i = j \/ ~entryHeapLess(hp, sc, j, i)
        THEN hp
        ELSE heapUp(entryHeapSwap(hp, i, j), sc, i)

\* container/heap.down
RECURSIVE heapDown(_, _, _, _)

\* down that only ever looks at the left child
heapDownMutLeftChild(hp, sc, i, n) ==
    LET j1 == 2 * i + 1
    IN  IF j1 >= n THEN hp
        ELSE IF ~entryHeapLess(hp, sc, j1, i) THEN hp
        ELSE heapDown(entryHeapSwap(hp, i, j1), sc, j1, n)

heapDown(hp, sc, i, n) ==
    LET j1 == 2 * i + 1
        j2 == j1 + 1
        j  == IF j2 < n /\ entryHeapLess(hp, sc, j2, j1) THEN j2 ELSE j1
    IN  IF j1 >= n THEN hp
        ELSE IF ~entryHeapLess(hp, sc, j, i) THEN hp
        ELSE heapDown(entryHeapSwap(hp, i, j), sc, j, n)

\* container/heap.Init
RECURSIVE heapInitFrom(_, _, _)
heapInitFrom(hp, sc, i) ==
    IF i < 0 THEN hp
    ELSE heapInitFrom(heapDown(hp, sc, i, Len(hp)), sc, i - 1)

heapInit(hp, sc) == heapInitFrom(hp, sc, (Len(hp) \div 2) - 1)

\* Push that appends without restoring the heap order
heapPushMutNoUp(hp, sc, x) == Append(hp, x)

\* container/heap.Push
heapPush(hp, sc, x) == heapUp(Append(hp, x), sc, Len(hp))

\* container/heap.Pop: the minimum, and the heap without it.
heapPop(hp, sc) ==
    LET n  == Len(hp) - 1
        h1 == heapDown(entryHeapSwap(hp, 0, n), sc, 0, n)
    IN  [x |-> h1[n + 1], h |-> SubSeq(h1, 1, n)]

-----------------------------------------------------------------------------
(* kvHeap.                                                                 *)

\* The loop of newKVHeap over scanners i..n: each scanner is advanced once;
\* the first failure ends the construction.
RECURSIVE newKVHeapLoop(_, _, _)
newKVHeapLoop(i, sc, hp) ==
    IF i > Len(files) THEN [scan |-> sc, h |-> hp, failed |-> 0]
    ELSE LET r == ScannerNext(sc, i)
         IN  IF r.ok THEN newKVHeapLoop(i + 1, r.scan, Append(hp, i))
             ELSE IF r.scan[i].err THEN [scan |-> r.scan, h |-> hp, failed |-> i]
             ELSE newKVHeapLoop(i + 1, r.scan, hp)

newKVHeap(sc) ==
    LET l  == newKVHeapLoop(1, sc, <<>>)
        h0 == heapInit(l.h, l.scan)
    IN  IF l.failed # 0
        THEN [scan |-> l.scan, failed |-> l.failed,
              kv |-> [h |-> <<>>, cur |-> 0, errVal |-> 0]]
        ELSE IF Len(h0) > 0
        THEN LET p == heapPop(h0, l.scan)
             IN  [scan |-> l.scan, failed |-> 0,
                  kv |-> [h |-> p.h, cur |-> p.x, errVal |-> 0]]
        ELSE [scan |-> l.scan, failed |-> 0,
              kv |-> [h |-> <<>>, cur |-> 0, errVal |-> 0]]

\* kvHeap.peek
kvPeek(k, sc) == IF k.cur = 0 THEN NoCell ELSE ScannerCell(sc, k.cur)

\* next that does not put the advanced scanner back into the heap
kvNextMutNoPush(k, sc) ==
    IF k.cur = 0 THEN [kv |-> k, scan |-> sc]
    ELSE LET r  == ScannerNext(sc, k.cur)
             h1 == k.h
         IN  IF ~r.ok /\ r.scan[k.cur].err
             THEN [kv |-> [k EXCEPT !.errVal = k.cur, !.cur = 0], scan |-> r.scan]
             ELSE IF Len(h1) > 0
             THEN LET p == heapPop(h1, r.scan)
                  IN  [kv |-> [k EXCEPT !.h = p.h, !.cur = p.x], scan |-> r.scan]
             ELSE [kv |-> [k EXCEPT !.h = h1, !.cur = 0], scan |-> r.scan]

\* kvHeap.next
kvNext(k, sc) ==
    IF k.cur = 0 THEN [kv |-> k, scan |-> sc]
    ELSE LET r  == ScannerNext(sc, k.cur)
             h1 == IF r.ok THEN heapPush(k.h, r.scan, k.cur) ELSE k.h
         IN  IF ~r.ok /\ r.scan[k.cur].err
             THEN [kv |-> [k EXCEPT !.errVal = k.cur, !.cur = 0], scan |-> r.scan]
             ELSE IF Len(h1) > 0
             THEN LET p == heapPop(h1, r.scan)
                  IN  [kv |-> [k EXCEPT !.h = p.h, !.cur = p.x], scan |-> r.scan]
             ELSE [kv |-> [k EXCEPT !.h = h1, !.cur = 0], scan |-> r.scan]

-----------------------------------------------------------------------------
(* deleteTracker.  Go maps are functions on the set of keys present.       *)

NotDeleted == "NotDeleted"
FamilyDeleted == "FamilyDeleted"
ColumnDeleted == "ColumnDeleted"
VersionDeleted == "VersionDeleted"

EmptyMap == <<>>

\* m[k] of a Go map of integers: 0 when k is absent.
MapGet(m, k) == IF k \in DOMAIN m THEN m[k] ELSE 0

\* m[k] = v
MapPut(m, k, v) == [x \in (DOMAIN m) \cup {k} |-> IF x = k THEN v ELSE m[x]]

newDeleteTracker ==
    [familyDeleteTS |-> 0, columnDeleteTS |-> EmptyMap, versionDeletes |-> EmptyMap]

\* reset that forgets to clear the DeleteFamily timestamp
deleteTrackerResetMutKeepFamily(dt) ==
    [familyDeleteTS |-> dt.familyDeleteTS, columnDeleteTS |-> EmptyMap,
     versionDeletes |-> EmptyMap]

deleteTrackerReset(dt) ==
    [familyDeleteTS |-> 0, columnDeleteTS |-> EmptyMap, versionDeletes |-> EmptyMap]

\* add that records a point Delete as if it were a DeleteColumn
deleteTrackerAddMutPointAsColumn(dt, c) ==
    LET qual == c.Qualifier
    IN  IF c.Type = CellTypeDeleteFamily
        THEN IF c.Timestamp > dt.familyDeleteTS
             THEN [dt EXCEPT !.familyDeleteTS = c.Timestamp]
             ELSE dt
        ELSE IF c.Timestamp > MapGet(dt.columnDeleteTS, qual)
             THEN [dt EXCEPT !.columnDeleteTS = MapPut(@, qual, c.Timestamp)]
             ELSE dt

deleteTrackerAdd(dt, c) ==
    LET qual == c.Qualifier
    IN  IF c.Type = CellTypeDeleteFamily
        THEN IF c.Timestamp > dt.familyDeleteTS
             THEN [dt EXCEPT !.familyDeleteTS = c.Timestamp]
             ELSE dt
        ELSE IF c.Type = CellTypeDeleteColumn
        THEN IF c.Timestamp > MapGet(dt.columnDeleteTS, qual)
             THEN [dt EXCEPT !.columnDeleteTS = MapPut(@, qual, c.Timestamp)]
             ELSE dt
        ELSE IF c.Type = CellTypeDelete
        THEN LET old == IF qual \in DOMAIN dt.versionDeletes
                        THEN dt.versionDeletes[qual] ELSE {}
             IN  [dt EXCEPT !.versionDeletes = MapPut(@, qual, old \cup {c.Timestamp})]
        ELSE dt

\* isDeleted that lets a point Delete cover older timestamps too
deleteTrackerIsDeletedMutPointCoversOlder(dt, c) ==
    LET qual == c.Qualifier
    IN  IF dt.familyDeleteTS > 0 /\ c.Timestamp <= dt.familyDeleteTS
        THEN FamilyDeleted
        ELSE IF qual \in DOMAIN dt.columnDeleteTS /\ c.Timestamp <= dt.columnDeleteTS[qual]
        THEN ColumnDeleted
        ELSE IF qual \in DOMAIN dt.versionDeletes
                /\ \E t \in dt.versionDeletes[qual] : c.Timestamp <= t
        THEN VersionDeleted
        ELSE NotDeleted

deleteTrackerIsDeleted(dt, c) ==
    LET qual == c.Qualifier
    IN  IF dt.familyDeleteTS > 0 /\ c.Timestamp <= dt.familyDeleteTS
        THEN FamilyDeleted
        ELSE IF qual \in DOMAIN dt.columnDeleteTS /\ c.Timestamp <= dt.columnDeleteTS[qual]
        THEN ColumnDeleted
        ELSE IF qual \in DOMAIN dt.versionDeletes /\ c.Timestamp \in dt.versionDeletes[qual]
        THEN VersionDeleted
        ELSE NotDeleted

-----------------------------------------------------------------------------
(* Inputs: files whose cells are in non-decreasing CompareCell order.      *)

\* No HFile is open: the region scanner runs over scanners given as cell
\* sequences.
HIdle ==
    /\ disk = <<>>
    /\ rd = <<>>
    /\ hs = <<>>
    /\ hlog = <<>>
    /\ blk = <<>>
    /\ bf = <<>>

CellsOver(rows, quals, maxTs, types) ==
    { Cell(r, f, q, ts, ty) : r \in rows, f \in Families, q \in quals,
                              ts \in 0..maxTs, ty \in types }

\* The cells of U as a sequence in increasing CompareCell order.
SortedUniverse(U) ==
    [i \in 1..Cardinality(U) |->
        CHOOSE c \in U : Cardinality({ d \in U : CompareCell(d, c) < 0 }) = i - 1]

\* A layout places t cells: m[i] = <<f, u>> puts cell number u of the sorted
\* universe into file f.  Layouts are in increasing (file, cell) order, so a
\* layout is one tuple of sorted files, and every such tuple has one layout.
Layouts(t, n, size) ==
    { m \in [1..t -> (1..n) \X (1..size)] :
        \A i \in 1..(t - 1) :
            \/ m[i][1] < m[i + 1][1]
            \/ m[i][1] = m[i + 1][1] /\ m[i][2] <= m[i + 1][2] }

RECURSIVE FileOfLayout(_, _, _, _)
FileOfLayout(m, univ, f, i) ==
    IF i > Len(m) THEN <<>>
    ELSE IF m[i][1] = f THEN <<univ[m[i][2]]>> \o FileOfLayout(m, univ, f, i + 1)
    ELSE FileOfLayout(m, univ, f, i + 1)

FilesOfLayout(m, univ, n) == [f \in 1..n |-> FileOfLayout(m, univ, f, 1)]

IsSorted(s) == \A i \in 1..(Len(s) - 1) : CompareCell(s[i], s[i + 1]) <= 0

\* Every input file is in non-decreasing CompareCell order.
InputsSorted == \A f \in DOMAIN files : IsSorted(files[f])

NoEndKey == <<>>

\* Options without a start key
Options(mv, endKey) == [MaxVersions |-> mv, StartKey |-> <<>>, EndKey |-> endKey]

\* Options with a start key
OptionsFrom(mv, startKey, endKey) ==
    [MaxVersions |-> mv, StartKey |-> startKey, EndKey |-> endKey]

\* Unlimited and limited versions without an end key, and scans with an end
\* key: a row of the files, and a key between the rows, longer than both.
OptionSet ==
    { Options(mv, NoEndKey) : mv \in 0..MaxMV }
        \cup { Options(0, <<2>>), Options(0, <<1, 0>>) }

MergeOptionSet == { Options(mv, NoEndKey) : mv \in 0..1 } \cup { Options(0, <<2>>) }

SpecUniverse == SortedUniverse(CellsOver(Rows, Qualifiers, MaxTs, CellTypes))

MergeUniverse ==
    SortedUniverse(CellsOver(Rows, {<<1>>}, MergeTs, {CellTypePut, CellTypeDelete}))

\* The state before NewRegionScanner: n files of at most total cells
\* together, each sorted, and the options of the scan.
InitWith(univ, n, total, optionSet) ==
    /\ \E t \in 0..total : \E m \in Layouts(t, n, Len(univ)) :
          files = FilesOfLayout(m, univ, n)
    /\ failAt = [f \in 1..n |-> 0]
    /\ opts \in optionSet
    /\ pc = "new"
    /\ scan = [f \in 1..n |-> [pos |-> 0, err |-> FALSE]]
    /\ kv = [h |-> <<>>, cur |-> 0, errVal |-> 0]
    /\ deletes = newDeleteTracker
    /\ currentRow = <<>>
    /\ versionCounts = EmptyMap
    /\ cell = NoCell
    /\ err = 0
    /\ ret = "none"
    /\ trace = <<>>
    /\ HIdle

Init == InitWith(SpecUniverse, NumFiles, MaxCells, OptionSet)

InitMerge == InitWith(MergeUniverse, MergeFiles, MergeCells, MergeOptionSet)

ErrOptionSet == { Options(1, NoEndKey), Options(0, <<2>>) }

ErrUniverse ==
    SortedUniverse(CellsOver(Rows, {<<1>>}, 0, {CellTypePut, CellTypeDelete}))

\* Reads that may fail: of each file, no read, or the read of one position,
\* the one after the last cell included (the read that would find the end).
FailurePoints(fs) ==
    { fa \in [DOMAIN fs -> 0..(ErrCells + 1)] :
        \A f \in DOMAIN fs : fa[f] <= Len(fs[f]) + 1 }

\* As InitWith, with input scanners that may fail.
InitErr ==
    /\ \E t \in 0..ErrCells : \E m \in Layouts(t, ErrFiles, Len(ErrUniverse)) :
          files = FilesOfLayout(m, ErrUniverse, ErrFiles)
    /\ failAt \in FailurePoints(files)
    /\ opts \in ErrOptionSet
    /\ pc = "new"
    /\ scan = [f \in 1..ErrFiles |-> [pos |-> 0, err |-> FALSE]]
    /\ kv = [h |-> <<>>, cur |-> 0, errVal |-> 0]
    /\ deletes = newDeleteTracker
    /\ currentRow = <<>>
    /\ versionCounts = EmptyMap
    /\ cell = NoCell
    /\ err = 0
    /\ ret = "none"
    /\ trace = <<>>
    /\ HIdle

-----------------------------------------------------------------------------
(* The start key.  NewRegionScanner hands rowSeekKey(StartKey) to          *)
(* newKVHeap, which positions every scanner with Scanner.Seek(seekKey) in  *)
(* place of its first Next.  Seek is modelled as in the HFile engine       *)
(* below, on a file of one data block: the scan goes forward from the      *)
(* first cell and discards the cells whose key is before the target, keys  *)
(* being compared as byte strings.                                         *)

\* rowSeekKey(row): 2-byte big-endian length, then the row
rowSeekKey(row) == <<Len(row) \div 256, Len(row) % 256>> \o row

\* The key of a cell as bytes: rowLen(2) row famLen(1) family qualifier
\* timestamp(8) type(1)
CellKeyBytes(c) ==
    rowSeekKey(c.Row) \o <<Len(c.Family)>> \o c.Family \o c.Qualifier
    \o <<0, 0, 0, 0, 0, 0, 0, c.Timestamp, c.Type>>

\* Scanner.Seek(key) on scanner f: the first cell whose key is not before
\* key, ok = FALSE when there is none
ScannerSeek(sc, f, key) ==
    LET at == { p \in 1..Len(files[f]) :
                  BytesCompare(CellKeyBytes(files[f][p]), key) >= 0 }
    IN  IF at = {}
        THEN [scan |-> [sc EXCEPT ![f].pos = Len(files[f]) + 1], ok |-> FALSE]
        ELSE [scan |-> [sc EXCEPT ![f].pos = CHOOSE p \in at : \A q \in at : p <= q],
              ok |-> TRUE]

\* The loop of newKVHeap over scanners i..n when a seek key is given
RECURSIVE newKVHeapSeekLoop(_, _, _, _)
newKVHeapSeekLoop(i, sc, hp, seekKey) ==
    IF i > Len(files) THEN [scan |-> sc, h |-> hp, failed |-> 0]
    ELSE LET r == ScannerSeek(sc, i, seekKey)
         IN  IF r.ok THEN newKVHeapSeekLoop(i + 1, r.scan, Append(hp, i), seekKey)
             ELSE newKVHeapSeekLoop(i + 1, r.scan, hp, seekKey)

\* newKVHeap(scanners, seekKey) with a seek key
newKVHeapSeek(sc, seekKey) ==
    LET l  == newKVHeapSeekLoop(1, sc, <<>>, seekKey)
        h0 == heapInit(l.h, l.scan)
    IN  IF Len(h0) > 0
        THEN LET p == heapPop(h0, l.scan)
             IN  [scan |-> l.scan, failed |-> 0,
                  kv |-> [h |-> p.h, cur |-> p.x, errVal |-> 0]]
        ELSE [scan |-> l.scan, failed |-> 0,
              kv |-> [h |-> <<>>, cur |-> 0, errVal |-> 0]]

-----------------------------------------------------------------------------
(* RegionScanner.                                                          *)

NewRegionScanner ==
    /\ pc = "new"
    /\ LET n == IF Len(opts.StartKey) > 0
                THEN newKVHeapSeek(scan, rowSeekKey(opts.StartKey))
                ELSE newKVHeap(scan)
       IN  /\ scan' = n.scan
           /\ kv' = n.kv
           /\ pc' = IF n.failed # 0 THEN "failed" ELSE "ready"
           /\ err' = n.failed
    /\ deletes' = newDeleteTracker
    /\ versionCounts' = EmptyMap
    /\ UNCHANGED <<files, failAt, opts, currentRow, cell, ret, trace>>
    /\ UNCHANGED hvars

\* One trace entry: the cell, the scanner and position it came from, and
\* what the loop did with it.
Visit(c, f, p, what) == [cell |-> c, file |-> f, pos |-> p, what |-> what]

\* the end-key test that stops at the end key only
PastEndKeyMutEqualOnly(c) == Len(opts.EndKey) > 0 /\ BytesCompare(c.Row, opts.EndKey) = 0

\* the end-key test with an inclusive end key
PastEndKeyMutInclusive(c) == Len(opts.EndKey) > 0 /\ BytesCompare(c.Row, opts.EndKey) > 0

PastEndKey(c) == Len(opts.EndKey) > 0 /\ BytesCompare(c.Row, opts.EndKey) >= 0

RowChanged(c) == c.Row # currentRow

\* The tracker and the counters after the row-change step of the loop.
DeletesForRow(c) == IF RowChanged(c) THEN deleteTrackerReset(deletes) ELSE deletes

CountsForRow(c) == IF RowChanged(c) THEN EmptyMap ELSE versionCounts

\* The test of the loop that sends a cell to the delete tracker.
IsTombstoneMutFamilyOnly(c) == c.Type = CellTypeDeleteFamily

IsTombstone(c) == c.Type # CellTypePut

AtVersionLimit(c) ==
    opts.MaxVersions > 0 /\ MapGet(CountsForRow(c), c.Qualifier) >= opts.MaxVersions

\* peek and heap.next of one iteration, common to every branch that has a cell.
Dequeue(what) ==
    LET adv == kvNext(kv, scan)
    IN  /\ kv' = adv.kv
        /\ scan' = adv.scan
        /\ trace' = Append(trace, Visit(kvPeek(kv, scan), kv.cur, scan[kv.cur].pos, what))

\* Next: the heap is empty; report the cursor error, if any.
NextExhausted ==
    /\ pc = "ready"
    /\ kv.cur = 0
    /\ err' = IF kv.errVal # 0 THEN kv.errVal ELSE err
    /\ ret' = "false"
    /\ UNCHANGED <<files, failAt, opts, pc, scan, kv, deletes, currentRow,
                   versionCounts, cell, trace>>
    /\ UNCHANGED hvars

\* Next: the cell is at or past the end key.
NextEndKey ==
    /\ pc = "ready"
    /\ kv.cur # 0
    /\ PastEndKey(kvPeek(kv, scan))
    /\ Dequeue("end")
    /\ ret' = "false"
    /\ UNCHANGED <<files, failAt, opts, pc, deletes, currentRow, versionCounts, cell, err>>
    /\ UNCHANGED hvars

\* Next: a tombstone is registered and skipped.
NextTombstone ==
    /\ pc = "ready"
    /\ kv.cur # 0
    /\ LET c == kvPeek(kv, scan)
       IN  /\ ~PastEndKey(c)
           /\ IsTombstone(c)
           /\ currentRow' = c.Row
           /\ deletes' = deleteTrackerAdd(DeletesForRow(c), c)
           /\ versionCounts' = CountsForRow(c)
    /\ Dequeue("tombstone")
    /\ ret' = "continue"
    /\ UNCHANGED <<files, failAt, opts, pc, cell, err>>
    /\ UNCHANGED hvars

\* Next: a Put the tracker reports deleted is skipped.
NextDeleted ==
    /\ pc = "ready"
    /\ kv.cur # 0
    /\ LET c == kvPeek(kv, scan)
       IN  /\ ~PastEndKey(c)
           /\ ~IsTombstone(c)
           /\ deleteTrackerIsDeleted(DeletesForRow(c), c) # NotDeleted
           /\ currentRow' = c.Row
           /\ deletes' = DeletesForRow(c)
           /\ versionCounts' = CountsForRow(c)
           /\ Dequeue(deleteTrackerIsDeleted(DeletesForRow(c), c))
    /\ ret' = "continue"
    /\ UNCHANGED <<files, failAt, opts, pc, cell, err>>
    /\ UNCHANGED hvars

\* Next: a Put beyond the version limit of its qualifier is skipped.
NextVersionLimit ==
    /\ pc = "ready"
    /\ kv.cur # 0
    /\ LET c == kvPeek(kv, scan)
       IN  /\ ~PastEndKey(c)
           /\ ~IsTombstone(c)
           /\ deleteTrackerIsDeleted(DeletesForRow(c), c) = NotDeleted
           /\ AtVersionLimit(c)
           /\ currentRow' = c.Row
           /\ deletes' = DeletesForRow(c)
           /\ versionCounts' = CountsForRow(c)
    /\ Dequeue("limit")
    /\ ret' = "continue"
    /\ UNCHANGED <<files, failAt, opts, pc, cell, err>>
    /\ UNCHANGED hvars

\* Next: a visible Put is counted and returned.
NextEmit ==
    /\ pc = "ready"
    /\ kv.cur # 0
    /\ LET c == kvPeek(kv, scan)
       IN  /\ ~PastEndKey(c)
           /\ ~IsTombstone(c)
           /\ deleteTrackerIsDeleted(DeletesForRow(c), c) = NotDeleted
           /\ ~AtVersionLimit(c)
           /\ currentRow' = c.Row
           /\ deletes' = DeletesForRow(c)
           /\ versionCounts' =
                IF opts.MaxVersions > 0
                THEN MapPut(CountsForRow(c), c.Qualifier,
                            MapGet(CountsForRow(c), c.Qualifier) + 1)
                ELSE CountsForRow(c)
           /\ cell' = c
    /\ Dequeue("emit")
    /\ ret' = "true"
    /\ UNCHANGED <<files, failAt, opts, pc, err>>
    /\ UNCHANGED hvars

Next ==
    \/ NewRegionScanner
    \/ NextExhausted
    \/ NextEndKey
    \/ NextTombstone
    \/ NextDeleted
    \/ NextVersionLimit
    \/ NextEmit

Spec == Init /\ [][Next]_vars

SpecMerge == InitMerge /\ [][Next]_vars

SpecErr == InitErr /\ [][Next]_vars

-----------------------------------------------------------------------------
(* Vocabulary of the properties: the trace of dequeued cells.              *)

TraceIdx == 1..Len(trace)

DeletedStatuses == {FamilyDeleted, ColumnDeleted, VersionDeleted}

\* Entry i went through the row-change step (it was not cut off by EndKey).
Processed(i) == trace[i].what # "end"

PutAt(i) == Processed(i) /\ trace[i].cell.Type = CellTypePut

\* Entry i is a tombstone of the given type that reached the delete tracker.
TombstoneAt(i, type) == trace[i].what = "tombstone" /\ trace[i].cell.Type = type

SameRow(i, j) == trace[i].cell.Row = trace[j].cell.Row

SameColumn(i, j) == SameRow(i, j) /\ trace[i].cell.Qualifier = trace[j].cell.Qualifier

EmittedAt(i) == trace[i].what = "emit"

\* Tombstone d suppresses Put p, by the rules of the delete tracker's
\* contract: DeleteFamily and DeleteColumn cover timestamps <= theirs,
\* a point Delete its own timestamp only.
Covers(d, p) ==
    /\ d.Row = p.Row
    /\ \/ d.Type = CellTypeDeleteFamily /\ p.Timestamp <= d.Timestamp
       \/ d.Type = CellTypeDeleteColumn /\ d.Qualifier = p.Qualifier
                                        /\ p.Timestamp <= d.Timestamp
       \/ d.Type = CellTypeDelete /\ d.Qualifier = p.Qualifier
                                  /\ p.Timestamp = d.Timestamp

\* The Put at entry j is covered by a tombstone visited before it.
RefSuppressed(j) ==
    \E i \in 1..(j - 1) : trace[i].what = "tombstone" /\ Covers(trace[i].cell, trace[j].cell)

\* Earlier Puts of the column of entry j that no tombstone covers.
EarlierVisible(j) ==
    { i \in 1..(j - 1) : PutAt(i) /\ SameColumn(i, j) /\ ~RefSuppressed(i) }

\* Earlier Puts of the column of entry j that were emitted.
EarlierEmitted(j) == { i \in 1..(j - 1) : EmittedAt(i) /\ SameColumn(i, j) }

Exhausted == pc = "ready" /\ kv.cur = 0 /\ kv.errVal = 0

-----------------------------------------------------------------------------
(* What the tracker does, exactly: a DeleteFamily or DeleteColumn with     *)
(* timestamp 0 is never recorded (add compares with the zero value, and    *)
(* isDeleted reads familyDeleteTS = 0 as "none seen"), so it covers        *)
(* nothing; every other tombstone covers what Covers says.                 *)

CoversInCode(d, p) ==
    Covers(d, p) /\ (d.Type \in {CellTypeDeleteFamily, CellTypeDeleteColumn} => d.Timestamp > 0)

TrackerLemma ==
    \A j \in TraceIdx : PutAt(j) =>
        ( trace[j].what \in DeletedStatuses
            <=> \E i \in 1..(j - 1) : /\ trace[i].what = "tombstone"
                                      /\ CoversInCode(trace[i].cell, trace[j].cell) )

\* The version limit, relative to what the tracker let through: a Put that
\* is not reported deleted is emitted iff fewer than MaxVersions Puts of its
\* column were emitted before it.
VersionLimitLemma ==
    \A j \in TraceIdx : (PutAt(j) /\ trace[j].what \notin DeletedStatuses) =>
        ( EmittedAt(j) <=>
            (opts.MaxVersions = 0 \/ Cardinality(EarlierEmitted(j)) < opts.MaxVersions) )

-----------------------------------------------------------------------------
(* C1: with MaxVersions = k > 0 at most k Puts are emitted per (row,       *)
(* qualifier), and they are the k most recent Puts of the column that no   *)
(* tombstone suppresses: in the dequeue order, which is newest first       *)
(* within a column, a Put is emitted iff no earlier tombstone covers it    *)
(* and fewer than k uncovered Puts of its column came before it.           *)
C1_MaxVersionsMostRecent ==
    opts.MaxVersions > 0 =>
        \A j \in TraceIdx : PutAt(j) =>
            /\ \A i \in 1..(j - 1) : (PutAt(i) /\ SameColumn(i, j)) =>
                   trace[i].cell.Timestamp >= trace[j].cell.Timestamp
            /\ Cardinality(EarlierEmitted(j)) <= opts.MaxVersions
            /\ EmittedAt(j) <=>
                   (~RefSuppressed(j) /\ Cardinality(EarlierVisible(j)) < opts.MaxVersions)

(* C2: once a DeleteFamily with timestamp T was visited in a row, no Put   *)
(* of that row visited later with timestamp <= T is emitted, for every T   *)
(* and every qualifier; and the tracker holds the maximum DeleteFamily     *)
(* timestamp seen in the current row.                                      *)
MaxOf(S) == IF S = {} THEN 0 ELSE CHOOSE x \in S : \A y \in S : y <= x

C2_DeleteFamilySuppresses ==
    /\ \A j \in TraceIdx : \A i \in 1..(j - 1) :
          ( /\ TombstoneAt(i, CellTypeDeleteFamily)
            /\ PutAt(j)
            /\ SameRow(i, j)
            /\ trace[j].cell.Timestamp <= trace[i].cell.Timestamp )
          => ~EmittedAt(j)
    /\ pc = "ready" =>
          deletes.familyDeleteTS =
              MaxOf({ trace[i].cell.Timestamp : i \in { k \in TraceIdx :
                        /\ TombstoneAt(k, CellTypeDeleteFamily)
                        /\ trace[k].cell.Row = currentRow } })

(* C3: a DeleteColumn of qualifier q with timestamp T suppresses exactly   *)
(* the Puts of the same row and qualifier visited later with timestamp     *)
(* <= T: each of those is suppressed, and a Put is reported ColumnDeleted  *)
(* only if such a DeleteColumn was visited before it.                      *)
C3_DeleteColumnSuppressesExactly ==
    \A j \in TraceIdx : PutAt(j) =>
        /\ ( \E i \in 1..(j - 1) : /\ TombstoneAt(i, CellTypeDeleteColumn)
                                   /\ SameColumn(i, j)
                                   /\ trace[j].cell.Timestamp <= trace[i].cell.Timestamp )
           => ~EmittedAt(j)
        /\ trace[j].what = ColumnDeleted =>
             \E i \in 1..(j - 1) : /\ TombstoneAt(i, CellTypeDeleteColumn)
                                   /\ SameColumn(i, j)
                                   /\ trace[j].cell.Timestamp <= trace[i].cell.Timestamp

(* C4: a point Delete of (row, q, T) suppresses the later Puts of that row *)
(* and qualifier with timestamp exactly T and nothing else: a Put is       *)
(* reported VersionDeleted only with such a Delete before it, and a Put    *)
(* whose row so far holds only point Deletes of another qualifier or       *)
(* another timestamp is not reported deleted.                              *)
MatchingDeleteBefore(j) ==
    \E i \in 1..(j - 1) : /\ TombstoneAt(i, CellTypeDelete)
                          /\ SameColumn(i, j)
                          /\ trace[i].cell.Timestamp = trace[j].cell.Timestamp

C4_PointDeleteExactTimestamp ==
    \A j \in TraceIdx : PutAt(j) =>
        /\ MatchingDeleteBefore(j) => trace[j].what \in DeletedStatuses
        /\ trace[j].what = VersionDeleted => MatchingDeleteBefore(j)
        /\ ( /\ ~MatchingDeleteBefore(j)
             /\ \A i \in 1..(j - 1) : (trace[i].what = "tombstone" /\ SameRow(i, j))
                                         => trace[i].cell.Type = CellTypeDelete )
           => trace[j].what \notin DeletedStatuses

\* A Delete of q at T, then the Put of q at T suppressed, then an older Put
\* of q emitted.
C4_Witness ==
    \E i, j, k \in TraceIdx :
        /\ i < j /\ j < k
        /\ TombstoneAt(i, CellTypeDelete)
        /\ PutAt(j) /\ SameColumn(i, j) /\ trace[j].what = VersionDeleted
        /\ trace[j].cell.Timestamp = trace[i].cell.Timestamp
        /\ PutAt(k) /\ SameColumn(i, k) /\ EmittedAt(k)
        /\ trace[k].cell.Timestamp < trace[i].cell.Timestamp

(* C5: merging a newer file of Puts with an older file of point Deletes,   *)
(* none of which has the row, qualifier and timestamp of one of the Puts,  *)
(* yields exactly the Puts of the newer file, in order.                    *)
NewerPutsOlderDeletes ==
    /\ Len(files) = 2
    /\ Len(files[1]) > 0
    /\ Len(files[2]) > 0
    /\ \A p \in 1..Len(files[1]) : files[1][p].Type = CellTypePut
    /\ \A d \in 1..Len(files[2]) : files[2][d].Type = CellTypeDelete
    /\ \A p \in 1..Len(files[1]) : \A d \in 1..Len(files[2]) :
          ~( /\ files[1][p].Row = files[2][d].Row
             /\ files[1][p].Qualifier = files[2][d].Qualifier
             /\ files[1][p].Timestamp = files[2][d].Timestamp )

EmittedCells ==
    LET em == SelectSeq(trace, LAMBDA e : e.what = "emit")
    IN  [i \in 1..Len(em) |-> em[i].cell]

C5_OlderDeleteKeepsNewerPut ==
    ( /\ NewerPutsOlderDeletes
      /\ opts.EndKey = NoEndKey
      /\ opts.MaxVersions = 0 \/ Len(files[1]) = 1
      /\ Exhausted )
    => EmittedCells = files[1]

\* The scan is over; the older file's Delete of the Put's column, with a
\* newer timestamp, was visited before the Put.
C5_Witness ==
    /\ NewerPutsOlderDeletes
    /\ opts.EndKey = NoEndKey
    /\ Exhausted
    /\ \E i, j \in TraceIdx :
          /\ i < j
          /\ TombstoneAt(i, CellTypeDelete) /\ trace[i].file = 2
          /\ EmittedAt(j) /\ trace[j].file = 1
          /\ SameColumn(i, j)

(* C6: tracker state and version counters are those of the current row     *)
(* only: everything the tracker holds comes from a tombstone of the        *)
(* current row, each counter counts the Puts emitted in the current row,   *)
(* a Put is reported deleted only with a tombstone of its own row before   *)
(* it, and cut by the version limit only with MaxVersions emitted Puts of  *)
(* its own row and qualifier before it.                                    *)
InCurrentRow(i) == trace[i].cell.Row = currentRow

C6_StateScopedToRow ==
    /\ pc = "ready" =>
        /\ deletes.familyDeleteTS > 0 =>
              \E i \in TraceIdx : /\ TombstoneAt(i, CellTypeDeleteFamily)
                                  /\ InCurrentRow(i)
                                  /\ trace[i].cell.Timestamp = deletes.familyDeleteTS
        /\ \A q \in DOMAIN deletes.columnDeleteTS :
              \E i \in TraceIdx : /\ TombstoneAt(i, CellTypeDeleteColumn)
                                  /\ InCurrentRow(i)
                                  /\ trace[i].cell.Qualifier = q
                                  /\ trace[i].cell.Timestamp = deletes.columnDeleteTS[q]
        /\ \A q \in DOMAIN deletes.versionDeletes : \A t \in deletes.versionDeletes[q] :
              \E i \in TraceIdx : /\ TombstoneAt(i, CellTypeDelete)
                                  /\ InCurrentRow(i)
                                  /\ trace[i].cell.Qualifier = q
                                  /\ trace[i].cell.Timestamp = t
        /\ \A q \in DOMAIN versionCounts :
              versionCounts[q] = Cardinality({ i \in TraceIdx :
                  EmittedAt(i) /\ InCurrentRow(i) /\ trace[i].cell.Qualifier = q })
    /\ \A j \in TraceIdx : PutAt(j) =>
        /\ trace[j].what \in DeletedStatuses =>
              \E i \in 1..(j - 1) : trace[i].what = "tombstone" /\ SameRow(i, j)
        /\ trace[j].what = "limit" =>
              Cardinality(EarlierEmitted(j)) >= opts.MaxVersions

\* A DeleteFamily of one row, then a Put of another row with a timestamp the
\* DeleteFamily would cover, emitted.
C6_Witness ==
    \E i, j \in TraceIdx :
        /\ i < j
        /\ TombstoneAt(i, CellTypeDeleteFamily)
        /\ trace[i].cell.Timestamp > 0
        /\ ~SameRow(i, j)
        /\ trace[j].cell.Timestamp <= trace[i].cell.Timestamp
        /\ EmittedAt(j)

(* C7: the cell Cell() exposes after a successful Next is a Put; no        *)
(* tombstone is ever emitted, each only reaches the delete tracker (or is  *)
(* cut off by the end key).                                                *)
C7_OnlyPutsEmitted ==
    /\ ret = "true" => cell.Type = CellTypePut
    /\ \A i \in TraceIdx :
          /\ EmittedAt(i) => trace[i].cell.Type = CellTypePut
          /\ trace[i].cell.Type # CellTypePut => trace[i].what \in {"tombstone", "end"}

\* Next has just returned true with tombstones of each type behind it.
C7_Witness ==
    /\ ret = "true"
    /\ cell = trace[Len(trace)].cell
    /\ \E i, j \in TraceIdx : /\ TombstoneAt(i, CellTypeDelete)
                              /\ TombstoneAt(j, CellTypeDeleteColumn)

(* C8: with sorted inputs, the cells emitted by successive Next calls are  *)
(* in non-decreasing CompareCell order, for every number of files and      *)
(* interleaving of their keys.                                             *)
C8_EmittedSorted ==
    \A i, j \in TraceIdx : (i < j /\ EmittedAt(i) /\ EmittedAt(j)) =>
        CompareCell(trace[i].cell, trace[j].cell) <= 0

\* Three cells emitted, the first from the last file, the second from the
\* first, the third from the middle one.
C8_Witness ==
    \E i, j, k \in TraceIdx :
        /\ i < j /\ j < k
        /\ EmittedAt(i) /\ EmittedAt(j) /\ EmittedAt(k)
        /\ trace[i].file = 3 /\ trace[j].file = 1 /\ trace[k].file = 2
        /\ CompareCell(trace[i].cell, trace[j].cell) < 0
        /\ CompareCell(trace[j].cell, trace[k].cell) < 0

(* C9: when the current cells of two scanners compare equal, the scanner   *)
(* with the lower index is dequeued first, at construction and after every *)
(* advance: the held-out current entry has a lower index than every heap   *)
(* entry with an equal cell, and equal cells leave the heap in index order.*)
C9_NewerFileFirstOnTies ==
    /\ (pc = "ready" /\ kv.cur # 0) =>
          \A e \in 1..Len(kv.h) :
              CompareCell(ScannerCell(scan, kv.cur), ScannerCell(scan, kv.h[e])) = 0
                  => kv.cur < kv.h[e]
    /\ \A i, j \in TraceIdx :
          (i < j /\ CompareCell(trace[i].cell, trace[j].cell) = 0)
              => trace[i].file <= trace[j].file

\* Equal cells of two files dequeued one after the other, the first of them
\* reached by an advance of its scanner.
C9_Witness ==
    \E i \in TraceIdx :
        /\ i + 1 \in TraceIdx
        /\ CompareCell(trace[i].cell, trace[i + 1].cell) = 0
        /\ trace[i].file < trace[i + 1].file
        /\ trace[i].pos > 1

(* C10: with MaxVersions = 0, no end key and no cursor error, when the     *)
(* scan is over every Put of every file that no tombstone of the inputs    *)
(* suppresses was emitted exactly once, and no cell was dequeued twice.    *)
\* The Put c is covered by a tombstone of some file that sorts before it.
SuppressedInInputs(c) ==
    \E f \in DOMAIN files : \E p \in 1..Len(files[f]) :
        /\ files[f][p].Type # CellTypePut
        /\ CompareCell(files[f][p], c) < 0
        /\ Covers(files[f][p], c)

TimesDequeued(f, p) == Cardinality({ i \in TraceIdx : trace[i].file = f /\ trace[i].pos = p })

TimesEmitted(f, p) ==
    Cardinality({ i \in TraceIdx : trace[i].file = f /\ trace[i].pos = p /\ EmittedAt(i) })

C10_EveryVisiblePutOnce ==
    /\ \A f \in DOMAIN files : \A p \in 1..Len(files[f]) : TimesDequeued(f, p) <= 1
    /\ ( opts.MaxVersions = 0 /\ opts.EndKey = NoEndKey /\ Exhausted ) =>
          \A f \in DOMAIN files : \A p \in 1..Len(files[f]) :
              ( files[f][p].Type = CellTypePut /\ ~SuppressedInInputs(files[f][p]) )
                  => TimesEmitted(f, p) = 1

\* The scan of two files is over: a Put of one file was emitted after a Put
\* of its column from the other file was suppressed.
C10_Witness ==
    /\ opts.MaxVersions = 0 /\ opts.EndKey = NoEndKey /\ Exhausted
    /\ \E i, k \in TraceIdx :
          /\ trace[k].what \in DeletedStatuses
          /\ EmittedAt(i) /\ k < i
          /\ trace[i].file # trace[k].file
          /\ SameColumn(i, k)

-----------------------------------------------------------------------------
(* C11: RegionScanner.Err after the iteration ended.                       *)

\* The input scanner that recorded an error (0: none).  kvHeap.next drops
\* every scanner at the first failure, so at most one fails.
FailedScanner ==
    IF \E f \in DOMAIN scan : scan[f].err
    THEN CHOOSE f \in DOMAIN scan : scan[f].err
    ELSE 0

\* A Next that finds the heap empty reports the failed scanner, and nil when
\* none failed.
ErrAtExhaustionLemma == [][NextExhausted => err' = FailedScanner']_vars

\* At most one input scanner fails.
OneFailureLemma == Cardinality({ f \in DOMAIN scan : scan[f].err }) <= 1

\* C11: once Next has returned false, Err() is the error of the input
\* scanner that failed while being advanced, and nil if none failed.
C11_ErrTellsWhetherCursorFailed ==
    (pc = "ready" /\ ret = "false") => err = FailedScanner

-----------------------------------------------------------------------------
(* The HFile engine works on bytes.  A byte string is a sequence of        *)
(* naturals below 256; offsets are 0-based as in the Go code.  An outcome  *)
(* is a record whose field st is "ok", "err" (a returned error, named in   *)
(* msg) or "panic" (a Go run-time panic: index or slice out of range,      *)
(* negative make length).                                                  *)

\* Operators of the HFile engine are applied by name through Call, so that
\* each definition is expanded once, and not once for each place that uses it.
RECURSIVE Call(_, _)

\* Every integer at or above Huge is read as Huge: the buffers of the model
\* are far shorter, so each comparison with a length or an offset comes out
\* the same.
Huge == 2^28

\* data[i] and data[lo:hi]
At(b, i) == b[i + 1]

Slice(b, lo, hi) == SubSeq(b, lo + 1, hi)

\* binary.BigEndian.Uint16(b[off:])
Uint16(b, off) == At(b, off) * 256 + At(b, off + 1)

\* int(binary.BigEndian.Uint32(b[off:])) on a 64-bit platform
Uint32(b, off) ==
    IF At(b, off) >= 16 THEN Huge
    ELSE ((At(b, off) * 256 + At(b, off + 1)) * 256 + At(b, off + 2)) * 256 + At(b, off + 3)

\* int32(binary.BigEndian.Uint32(b[off:])): the top bit is the sign
Int32(b, off) ==
    IF At(b, off) >= 128
    THEN (((At(b, off) - 256) * 256 + At(b, off + 1)) * 256 + At(b, off + 2)) * 256
         + At(b, off + 3)
    ELSE Uint32(b, off)

\* binary.BigEndian.Uint64(b[off:]) as a timestamp or an offset
Uint64(b, off) ==
    IF \E i \in 0..3 : At(b, off + i) # 0 THEN Huge ELSE Uint32(b, off + 4)

\* int8(b): the byte as a signed number
SignedByte(b) == IF b >= 128 THEN b - 256 ELSE b

\* decodeVIntSize
decodeVIntSize(firstByte) ==
    IF firstByte >= -112 THEN 1
    ELSE IF firstByte >= -120 THEN (-112 - firstByte) + 1
    ELSE (-120 - firstByte) + 1

\* isNegativeVInt
isNegativeVInt(firstByte) == firstByte < -120

\* The loop of readVInt: val = (val << 8) | buf[offset+i], for i in 1..size-1.
RECURSIVE readVIntLoop(_, _, _, _, _)
readVIntLoop(buf, offset, i, size, val) ==
    IF i >= size THEN val
    ELSE readVIntLoop(buf, offset, i + 1, size,
                      IF val >= 2^20 THEN Huge ELSE val * 256 + At(buf, offset + i))

\* readVInt: [st, val, n]
readVInt(buf, offset) ==
    IF offset >= Len(buf) THEN [st |-> "err", msg |-> "vint read past end of buffer"]
    ELSE LET firstByte == SignedByte(At(buf, offset))
             size == decodeVIntSize(firstByte)
         IN  IF offset + size > Len(buf)
             THEN [st |-> "err", msg |-> "vint extends past end of buffer"]
             ELSE IF size = 1 THEN [st |-> "ok", val |-> firstByte, n |-> 1]
             ELSE LET val == readVIntLoop(buf, offset, 1, size, 0)
                  IN  [st |-> "ok", n |-> size,
                       val |-> IF isNegativeVInt(firstByte) THEN -val - 1 ELSE val]

\* readByteArray: [st, bytes, n]
readByteArray(buf, offset) ==
    LET v == Call("readVInt", <<buf, offset>>)
    IN  IF v.st # "ok" THEN v
        ELSE IF v.val < 0 THEN [st |-> "err", msg |-> "negative byte array length"]
        ELSE IF offset + v.n + v.val > Len(buf)
        THEN [st |-> "err", msg |-> "byte array extends past end of buffer"]
        ELSE [st |-> "ok", bytes |-> Slice(buf, offset + v.n, offset + v.n + v.val),
              n |-> v.n + v.val]

-----------------------------------------------------------------------------
(* Cells on the wire: parseCell and CellIterator (hfile/cell.go).          *)

\* hfile.Cell with its value and tags.
HCell(row, fam, qual, ts, type, value, tags) ==
    [Row |-> row, Family |-> fam, Qualifier |-> qual, Timestamp |-> ts,
     Type |-> type, Value |-> value, Tags |-> tags]

\* parseCellTail that leaves the memstoreTS unread
parseCellTailMutNoMemstoreTS(data, offset, includeTags, pos0, c) ==
    LET hasTags == includeTags /\ pos0 + 2 <= Len(data)
        tagsLen == IF hasTags THEN Uint16(data, pos0) ELSE 0
        pos1    == IF hasTags THEN pos0 + 2 ELSE pos0
    IN  IF tagsLen > 0 /\ pos1 + tagsLen > Len(data)
        THEN [st |-> "err", msg |-> "cell: tags extend past data"]
        ELSE [st |-> "ok",
              cell |-> [c EXCEPT !.Tags = IF tagsLen > 0
                                          THEN Slice(data, pos1, pos1 + tagsLen)
                                          ELSE <<>>],
              n |-> (pos1 + tagsLen) - offset]

\* The end of parseCell: the optional tags, the optional memstoreTS, the cell.
parseCellTail(data, offset, includeTags, pos0, c) ==
    LET hasTags == includeTags /\ pos0 + 2 <= Len(data)
        tagsLen == IF hasTags THEN Uint16(data, pos0) ELSE 0
        pos1    == IF hasTags THEN pos0 + 2 ELSE pos0
    IN  IF tagsLen > 0 /\ pos1 + tagsLen > Len(data)
        THEN [st |-> "err", msg |-> "cell: tags extend past data"]
        ELSE LET tags == IF tagsLen > 0 THEN Slice(data, pos1, pos1 + tagsLen) ELSE <<>>
                 pos2 == pos1 + tagsLen
                 v    == IF pos2 < Len(data) THEN Call("readVInt", <<data, pos2>>)
                         ELSE [st |-> "ok", val |-> 0, n |-> 0]
             IN  IF v.st # "ok" THEN [st |-> "err", msg |-> "cell: read memstoreTS"]
                 ELSE [st |-> "ok", cell |-> [c EXCEPT !.Tags = tags],
                       n |-> (pos2 + v.n) - offset]

\* parseCell(data, offset, includeTags): [st, cell, n]
parseCell(data, offset, includeTags) ==
    IF offset + 8 > Len(data)
    THEN [st |-> "err", msg |-> "cell: not enough data for key/value lengths"]
    ELSE
    LET keyLen   == Uint32(data, offset)
        valLen   == Uint32(data, offset + 4)
        keyStart == offset + 8
    IN  IF keyStart + keyLen + valLen > Len(data)
        THEN [st |-> "err", msg |-> "cell: data too short for key+value"]
        ELSE IF keyLen < 2 + 1 + 8 + 1
        THEN [st |-> "err", msg |-> "cell: key too short"]
        ELSE
        LET rowLen == Uint16(data, keyStart)
            pos1   == keyStart + 2
        IN  IF pos1 + rowLen > keyStart + keyLen
            THEN [st |-> "err", msg |-> "cell: row extends past key"]
            ELSE
            LET row  == Slice(data, pos1, pos1 + rowLen)
                pos2 == pos1 + rowLen
            IN  IF pos2 >= Len(data) THEN [st |-> "panic", msg |-> "index out of range"]
                ELSE
                LET familyLen == At(data, pos2)
                    pos3      == pos2 + 1
                IN  IF pos3 + familyLen > keyStart + keyLen
                    THEN [st |-> "err", msg |-> "cell: family extends past key"]
                    ELSE
                    LET family  == Slice(data, pos3, pos3 + familyLen)
                        pos4    == pos3 + familyLen
                        qualLen == keyLen - (2 + rowLen + 1 + familyLen + 8 + 1)
                    IN  IF qualLen < 0
                        THEN [st |-> "err", msg |-> "cell: negative qualifier length"]
                        ELSE
                        LET qualifier == Slice(data, pos4, pos4 + qualLen)
                            pos5      == pos4 + qualLen
                            timestamp == Uint64(data, pos5)
                            cellType  == At(data, pos5 + 8)
                            pos6      == pos5 + 9
                            value     == Slice(data, pos6, pos6 + valLen)
                        IN  parseCellTail(data, offset, includeTags, pos6 + valLen,
                                HCell(row, family, qualifier, timestamp, cellType,
                                      value, <<>>))

\* NewCellIterator(data, includeTags)
NewCellIterator(data, includeTags) ==
    [data |-> data, offset |-> 0, includeTags |-> includeTags,
     cell |-> NoCell, err |-> ""]

\* Scanner.cellIter = nil: no iterator yet (the offset -1 marks it).
NilIter == [data |-> <<>>, offset |-> -1, includeTags |-> FALSE, cell |-> NoCell, err |-> ""]

\* CellIterator.Next: [it, ok, panic]
CellIteratorNext(it) ==
    IF it.offset >= Len(it.data) \/ it.err # ""
    THEN [it |-> it, ok |-> FALSE, panic |-> FALSE]
    ELSE LET r == Call("parseCell", <<it.data, it.offset, it.includeTags>>)
         IN  IF r.st = "panic" THEN [it |-> it, ok |-> FALSE, panic |-> TRUE]
             ELSE IF r.st = "err"
             THEN [it |-> [it EXCEPT !.err = r.msg], ok |-> FALSE, panic |-> FALSE]
             ELSE [it |-> [it EXCEPT !.cell = r.cell, !.offset = @ + r.n],
                   ok |-> TRUE, panic |-> FALSE]

-----------------------------------------------------------------------------
(* Blocks (hfile/block.go): magic, 33-byte header, payload, checksums.     *)

magicLen == 8

magicData == <<68, 65, 84, 65, 66, 76, 75, 42>>              \* DATABLK*
magicEncodedData == <<68, 65, 84, 65, 66, 76, 75, 69>>       \* DATABLKE
magicLeafIndex == <<73, 68, 88, 76, 69, 65, 70, 50>>         \* IDXLEAF2
magicBloomChunk == <<66, 76, 77, 70, 66, 76, 75, 50>>        \* BLMFBLK2
magicMeta == <<77, 69, 84, 65, 66, 76, 75, 99>>              \* METABLKc
magicIntermediateIndex == <<73, 68, 88, 73, 78, 84, 69, 50>> \* IDXINTE2
magicRootIndex == <<73, 68, 88, 82, 79, 79, 84, 50>>         \* IDXROOT2
magicFileInfo == <<70, 73, 76, 69, 73, 78, 70, 50>>          \* FILEINF2
magicGeneralBloomMeta == <<66, 76, 77, 70, 77, 69, 84, 50>>  \* BLMFMET2
magicDeleteBloomMeta == <<68, 70, 66, 76, 77, 69, 84, 50>>   \* DFBLMET2
magicTrailer == <<84, 82, 65, 66, 76, 75, 34, 36>>           \* TRABLK"$
magicIndexV1 == <<73, 68, 88, 66, 76, 75, 41, 43>>           \* IDXBLK)+

\* magicToBlockType, as a set of <<magic, BlockType>> pairs
magicToBlockType ==
    { <<magicData, "DATA">>, <<magicEncodedData, "ENCODED_DATA">>,
      <<magicLeafIndex, "LEAF_INDEX">>, <<magicBloomChunk, "BLOOM_CHUNK">>,
      <<magicMeta, "META">>, <<magicIntermediateIndex, "INTERMEDIATE_INDEX">>,
      <<magicRootIndex, "ROOT_INDEX">>, <<magicFileInfo, "FILE_INFO">>,
      <<magicGeneralBloomMeta, "GENERAL_BLOOM_META">>,
      <<magicDeleteBloomMeta, "DELETE_FAMILY_BLOOM_META">>,
      <<magicTrailer, "TRAILER">>, <<magicIndexV1, "INDEX_V1">> }

\* parseBlockType: the block type of a magic, "" when unknown
parseBlockType(magic) ==
    IF \E e \in magicToBlockType : e[1] = magic
    THEN (CHOOSE e \in magicToBlockType : e[1] = magic)[2]
    ELSE ""

blockHeaderSize == 33

\* parseBlockHeader(buf), buf of blockHeaderSize bytes
parseBlockHeader(buf) ==
    LET bt == parseBlockType(Slice(buf, 0, magicLen))
    IN  IF bt = "" THEN [st |-> "err", msg |-> "unknown block magic"]
        ELSE [st |-> "ok",
              hdr |-> [Type |-> bt,
                       OnDiskSizeWithoutHeader |-> Int32(buf, 8),
                       UncompressedSize |-> Int32(buf, 12),
                       PrevBlockOffset |-> Uint64(buf, 16),
                       ChecksumType |-> At(buf, 24),
                       BytesPerChecksum |-> Int32(buf, 25),
                       OnDiskDataSizeWithHeader |-> Int32(buf, 29)]]

\* io.ReaderAt.ReadAt(p, off) with len(p) = n over the bytes of the file:
\* an error unless all n bytes are there.
ReadAt(bytes, off, n) ==
    IF off < 0 \/ off + n > Len(bytes) THEN [st |-> "err", msg |-> "read"]
    ELSE [st |-> "ok", bytes |-> Slice(bytes, off, off + n)]

-----------------------------------------------------------------------------
(* Checksums (verifyChecksums) over hash/crc32.  A 32-bit word is the      *)
(* sequence of its four bytes, most significant first.                     *)

checksumNull == 0
checksumCRC32 == 1
checksumCRC32C == 2

\* a ^ b, bit by bit
RECURSIVE XorBits(_, _)
XorBits(a, b) ==
    IF a = 0 THEN b
    ELSE IF b = 0 THEN a
    ELSE 2 * XorBits(a \div 2, b \div 2) + ((a + b) % 2)

\* a ^ b for a, b < 16: entry [a + 1][b + 1]
xorTable ==
    SubSeq([i \in 1..16 |-> SubSeq([j \in 1..16 |-> XorBits(i - 1, j - 1)], 1, 16)], 1, 16)

\* a ^ b for bytes, by half-bytes
Xor(a, b) ==
    xorTable[(a \div 16) + 1][(b \div 16) + 1] * 16 + xorTable[(a % 16) + 1][(b % 16) + 1]

WordXor(x, y) == <<Xor(x[1], y[1]), Xor(x[2], y[2]), Xor(x[3], y[3]), Xor(x[4], y[4])>>

WordShr1(x) ==
    << x[1] \div 2,
       (x[2] \div 2) + (x[1] % 2) * 128,
       (x[3] \div 2) + (x[2] % 2) * 128,
       (x[4] \div 2) + (x[3] % 2) * 128 >>

WordShr8(x) == <<0, x[1], x[2], x[3]>>

\* crc32.IEEE = 0xedb88320, crc32.Castagnoli = 0x82f63b78
polyIEEE == <<237, 184, 131, 32>>
polyCastagnoli == <<130, 246, 59, 120>>

\* crc32.MakeTable: the entry of byte n is n after k = 8 shift steps
RECURSIVE crcTableEntry(_, _, _)
crcTableEntry(poly, n, k) ==
    IF k = 0 THEN <<0, 0, 0, n>>
    ELSE LET c == crcTableEntry(poly, n, k - 1)
         IN  IF c[4] % 2 = 1 THEN WordXor(WordShr1(c), poly) ELSE WordShr1(c)

\* crc32.MakeTable: the 256 entries as a sequence, entry n at index n + 1
MakeTable(poly) == SubSeq([n \in 1..256 |-> crcTableEntry(poly, n - 1, 8)], 1, 256)

IEEETable == MakeTable(polyIEEE)
castagnoliTable == MakeTable(polyCastagnoli)

\* crc32 update of crc over the bytes p[lo+1..hi], one byte at a time:
\* crc = tab[byte(crc) ^ v] ^ (crc >> 8).  The range is split in two so that
\* the evaluation depth stays logarithmic; the left part is finished before
\* the right part starts.
RECURSIVE crcUpdate(_, _, _, _, _)
crcUpdate(tab, crc, p, lo, hi) ==
    IF hi <= lo THEN crc
    ELSE IF hi = lo + 1
    THEN WordXor(WordShr8(crc), tab[Xor(crc[4], p[hi]) + 1])
    ELSE LET mid  == (lo + hi) \div 2
             left == crcUpdate(tab, crc, p, lo, mid)
         IN  IF Len(left) = 4 THEN crcUpdate(tab, left, p, mid, hi) ELSE left

\* crc32.Checksum(p, tab): ^update(^0, p)
crc32Checksum(tab, p) ==
    LET c == crcUpdate(tab, <<255, 255, 255, 255>>, p, 0, Len(p))
    IN  <<255 - c[1], 255 - c[2], 255 - c[3], 255 - c[4]>>

\* The loop of verifyChecksums over chunks i..numChunks-1: "" when all match.
RECURSIVE verifyChunks(_, _, _, _, _, _)
verifyChunks(checksumType, bytesPerChecksum, combined, checksumBytes, i, numChunks) ==
    IF i >= numChunks THEN ""
    ELSE LET start == i * bytesPerChecksum
             end   == Min(start + bytesPerChecksum, Len(combined))
             chunk == Slice(combined, start, end)
             expected == Slice(checksumBytes, i * 4, i * 4 + 4)
         IN  IF checksumType \notin {checksumCRC32, checksumCRC32C}
             THEN "unsupported checksum type"
             ELSE IF Call("crc32Checksum", <<IF checksumType = checksumCRC32 THEN IEEETable
                                   ELSE castagnoliTable, chunk>>) # expected
             THEN "checksum mismatch"
             ELSE verifyChunks(checksumType, bytesPerChecksum, combined,
                               checksumBytes, i + 1, numChunks)

\* verifyChecksums: "" (nil) or the error
verifyChecksums(checksumType, bytesPerChecksum, header, data, checksumBytes) ==
    IF bytesPerChecksum <= 0 THEN "invalid bytesPerChecksum"
    ELSE LET combined  == header \o data
             numChunks == (Len(combined) + bytesPerChecksum - 1) \div bytesPerChecksum
         IN  IF Len(checksumBytes) < numChunks * 4 THEN "checksum data too short"
             ELSE verifyChunks(checksumType, bytesPerChecksum, combined,
                               checksumBytes, 0, numChunks)

-----------------------------------------------------------------------------
(* Decompressors (hfile/compress.go).  The codec libraries are outside the *)
(* repository; their streams are modelled in stored form: a gzip member is *)
(* its three header bytes followed by the bytes it inflates to, a snappy   *)
(* block is its length byte followed by literal elements, a zstd frame is  *)
(* the frame magic, a length byte and the content.                         *)

CompressionGZ == 1
CompressionNone == 2
CompressionSnappy == 3
CompressionZSTD == 6

\* gzip header: ID1, ID2, CM = deflate
gzipMagic == <<31, 139, 8>>

zstdFrameMagic == <<40, 181, 47, 253>>

isZstdFrame(src) == Len(src) >= 4 /\ Slice(src, 0, 4) = zstdFrameMagic

\* gzip.NewReader + io.ReadFull into make([]byte, uncompressedSize)
gzipDecompress(src, uncompressedSize) ==
    IF Len(src) < Len(gzipMagic) \/ Slice(src, 0, Len(gzipMagic)) # gzipMagic
    THEN [st |-> "err", msg |-> "gzip new reader"]
    ELSE LET content == Slice(src, Len(gzipMagic), Len(src))
         IN  IF Len(content) < uncompressedSize
             THEN [st |-> "err", msg |-> "gzip read"]
             ELSE [st |-> "ok", data |-> Slice(content, 0, uncompressedSize)]

\* The literal elements of a snappy block from pos on: tag byte with low bits
\* 00 and length (tag >> 2) + 1 below 61, then the bytes.  <<-1>> is ErrCorrupt.
RECURSIVE snappyLiterals(_, _)
snappyLiterals(src, pos) ==
    IF pos >= Len(src) THEN <<>>
    ELSE LET tag == At(src, pos)
             n   == (tag \div 4) + 1
         IN  IF tag % 4 # 0 \/ n > 60 \/ pos + 1 + n > Len(src) THEN <<-1>>
             ELSE LET rest == snappyLiterals(src, pos + 1 + n)
                  IN  IF rest = <<-1>> THEN rest
                      ELSE Slice(src, pos + 1, pos + 1 + n) \o rest

\* snappy.Decode(dst, src): the decoded bytes, or ErrCorrupt
snappyDecode(src) ==
    IF Len(src) = 0 \/ At(src, 0) >= 128 THEN [st |-> "err", msg |-> "snappy: corrupt input"]
    ELSE LET d == snappyLiterals(src, 1)
         IN  IF d = <<-1>> \/ Len(d) # At(src, 0)
             THEN [st |-> "err", msg |-> "snappy: corrupt input"]
             ELSE [st |-> "ok", data |-> d]

\* zstd Decoder.DecodeAll(src, dst): dst with the content of the frame appended
zstdDecodeAll(src, dst) ==
    IF ~isZstdFrame(src) \/ Len(src) < 5 \/ At(src, 4) # Len(src) - 5
    THEN [st |-> "err", msg |-> "zstd: invalid input"]
    ELSE [st |-> "ok", data |-> dst \o Slice(src, 5, Len(src))]

\* The rawDecompress closure of snappyDecompressor: &decoded[0] is taken
\* whenever len(decoded) <= cap(tail), also for an empty decoded slice.
snappyRaw(dst, chunk) ==
    LET r == Call("snappyDecode", <<chunk>>)
    IN  IF r.st # "ok" THEN r
        ELSE IF Len(r.data) = 0
        THEN [st |-> "panic", msg |-> "index out of range"]
        ELSE [st |-> "ok", data |-> dst \o r.data]

rawDecompress(codec, dst, chunk) ==
    IF codec = "SNAPPY" THEN snappyRaw(dst, chunk)
    ELSE zstdDecodeAll(chunk, dst)

\* hadoopBlockDecompress from position pos on; remaining is
\* decompressedBlockSize - decompressedInBlock of the block being read
\* (0 between blocks).
RECURSIVE hadoopBlockLoop(_, _, _, _, _)
hadoopBlockLoop(codec, src, pos, out, remaining) ==
    IF remaining > 0
    THEN IF pos + 4 > Len(src)
         THEN [st |-> "err", msg |-> "hadoop block decompress: truncated chunk size"]
         ELSE LET compressedChunkSize == Uint32(src, pos)
              IN  IF pos + 4 + compressedChunkSize > Len(src)
                  THEN [st |-> "err", msg |-> "hadoop block decompress: truncated chunk data"]
                  ELSE LET chunk == Slice(src, pos + 4, pos + 4 + compressedChunkSize)
                           r     == rawDecompress(codec, out, chunk)
                       IN  IF r.st = "panic" THEN r
                           ELSE IF r.st # "ok"
                           THEN [st |-> "err", msg |-> "hadoop block decompress"]
                           ELSE hadoopBlockLoop(codec, src, pos + 4 + compressedChunkSize,
                                                r.data,
                                                remaining - (Len(r.data) - Len(out)))
    ELSE IF pos < Len(src)
    THEN IF pos + 4 > Len(src)
         THEN [st |-> "err", msg |-> "hadoop block decompress: truncated block size"]
         ELSE hadoopBlockLoop(codec, src, pos + 4, out, Uint32(src, pos))
    ELSE [st |-> "ok", data |-> out]

hadoopBlockDecompress(codec, src) ==
    hadoopBlockLoop(codec, src, 0, <<>>, 0)

\* Decompressor.Decompress(src, uncompressedSize) of the decompressor named codec
Decompress(codec, src, uncompressedSize) ==
    CASE codec = "NONE"   -> [st |-> "ok", data |-> src]
      [] codec = "GZ"     -> gzipDecompress(src, uncompressedSize)
      [] codec = "SNAPPY" -> Call("hadoopBlockDecompress", <<codec, src>>)
      [] codec = "ZSTD"   -> IF isZstdFrame(src) THEN zstdDecodeAll(src, <<>>)
                             ELSE Call("hadoopBlockDecompress", <<codec, src>>)

\* DecompressorForCodec: the name of the decompressor, "" for the error
DecompressorForCodec(codec) ==
    CASE codec = CompressionGZ     -> "GZ"
      [] codec = CompressionNone   -> "NONE"
      [] codec = CompressionSnappy -> "SNAPPY"
      [] codec = CompressionZSTD   -> "ZSTD"
      [] OTHER                     -> ""

\* ReadBlock(r, offset, decomp): [st, Header, Data, Offset] or the error
ReadBlock(bytes, offset, decomp) ==
    LET h == ReadAt(bytes, offset, blockHeaderSize)
    IN  IF h.st # "ok" THEN [st |-> "err", msg |-> "read block header"]
        ELSE
        LET p == Call("parseBlockHeader", <<h.bytes>>)
        IN  IF p.st # "ok" THEN p
            ELSE IF p.hdr.OnDiskSizeWithoutHeader < 0
            THEN [st |-> "err", msg |-> "invalid on-disk size"]
            ELSE
            LET d == ReadAt(bytes, offset + blockHeaderSize, p.hdr.OnDiskSizeWithoutHeader)
            IN  IF d.st # "ok" THEN [st |-> "err", msg |-> "read block data"]
                ELSE
                LET onDisk   == d.bytes
                    dataSize == p.hdr.OnDiskDataSizeWithHeader - blockHeaderSize
                IN  IF dataSize < 0 \/ dataSize > Len(onDisk)
                    THEN [st |-> "err", msg |-> "invalid block data size"]
                    ELSE
                    LET sumErr == IF p.hdr.ChecksumType # checksumNull
                                  THEN Call("verifyChecksums", <<p.hdr.ChecksumType,
                                           p.hdr.BytesPerChecksum, h.bytes,
                                           Slice(onDisk, 0, dataSize),
                                           Slice(onDisk, dataSize, Len(onDisk))>>)
                                  ELSE ""
                    IN  IF sumErr # "" THEN [st |-> "err", msg |-> sumErr]
                        ELSE IF p.hdr.UncompressedSize < 0
                        THEN [st |-> "err", msg |-> "invalid uncompressed size"]
                        ELSE
                        LET z == Call("Decompress", <<decomp, Slice(onDisk, 0, dataSize),
                                            p.hdr.UncompressedSize>>)
                        IN  IF z.st = "panic" THEN z
                            ELSE IF z.st # "ok"
                            THEN [st |-> "err", msg |-> "decompress block"]
                            ELSE [st |-> "ok", Header |-> p.hdr, Data |-> z.data,
                                  Offset |-> offset]

-----------------------------------------------------------------------------
(* Block indexes (hfile/index.go).                                         *)

IndexEntry(blockOffset, dataSize, key) ==
    [BlockOffset |-> blockOffset, DataSize |-> dataSize, Key |-> key]

\* The loop of parseRootIndex from entry i on: [st, Entries, n]
RECURSIVE parseRootEntries(_, _, _, _, _)
parseRootEntries(data, numEntries, i, offset, entries) ==
    IF i >= numEntries THEN [st |-> "ok", Entries |-> entries, n |-> offset]
    ELSE IF offset + 12 > Len(data)
    THEN [st |-> "err", msg |-> "root index entry: not enough data"]
    ELSE LET k == Call("readByteArray", <<data, offset + 12>>)
         IN  IF k.st # "ok" THEN [st |-> "err", msg |-> "root index entry key"]
             ELSE parseRootEntries(data, numEntries, i + 1, offset + 12 + k.n,
                      Append(entries, IndexEntry(Uint64(data, offset),
                                                 Int32(data, offset + 8), k.bytes)))

parseRootIndex(data, numEntries) == parseRootEntries(data, numEntries, 0, 0, <<>>)

\* ReadRootIndex: the root index of the data blocks, [st, Entries, NumDataIndexLevels]
ReadRootIndex(bytes, offset, numEntries, numLevels, decomp) ==
    LET b == Call("ReadBlock", <<bytes, offset, decomp>>)
    IN  IF b.st # "ok" THEN b
        ELSE LET r == Call("parseRootIndex", <<b.Data, numEntries>>)
             IN  IF r.st # "ok" THEN r
                 ELSE [st |-> "ok", Entries |-> r.Entries, NumDataIndexLevels |-> numLevels]

\* The entry loop of parseNonRootIndex from entry i on; make([]byte, n) with a
\* negative n panics.
RECURSIVE parseNonRootEntries(_, _, _, _, _)
parseNonRootEntries(data, numEntries, entriesStart, i, entries) ==
    IF i >= numEntries THEN [st |-> "ok", Entries |-> entries]
    ELSE LET entryOff == Min(entriesStart + Uint32(data, 4 + i * 4), Huge)
             entryEnd == Min(entriesStart + Uint32(data, 4 + (i + 1) * 4), Huge)
         IN  IF entryOff + 12 > Len(data) \/ entryEnd > Len(data)
             THEN [st |-> "err", msg |-> "non-root index entry: not enough data"]
             ELSE IF entryEnd - entryOff - 12 < 0
             THEN [st |-> "panic", msg |-> "makeslice: len out of range"]
             ELSE parseNonRootEntries(data, numEntries, entriesStart, i + 1,
                      Append(entries, IndexEntry(Uint64(data, entryOff),
                                                 Int32(data, entryOff + 8),
                                                 Slice(data, entryOff + 12, entryEnd))))

\* parseNonRootIndex(data): [st, Entries]
parseNonRootIndex(data) ==
    IF Len(data) < 4 THEN [st |-> "err", msg |-> "non-root index block too small"]
    ELSE LET numEntries == Uint32(data, 0)
         IN  IF numEntries = 0 THEN [st |-> "ok", Entries |-> <<>>]
             ELSE IF Len(data) < 4 + (numEntries + 1) * 4
             THEN [st |-> "err", msg |-> "non-root index block too small for secondary index"]
             ELSE parseNonRootEntries(data, numEntries, 4 + (numEntries + 1) * 4, 0, <<>>)

\* ReadNonRootIndex(r, offset, decomp): [st, Entries]
ReadNonRootIndex(bytes, offset, decomp) ==
    LET b == Call("ReadBlock", <<bytes, offset, decomp>>)
    IN  IF b.st # "ok" THEN b
        ELSE IF b.Header.Type \notin {"LEAF_INDEX", "INTERMEDIATE_INDEX"}
        THEN [st |-> "err", msg |-> "expected LEAF_INDEX or INTERMEDIATE_INDEX block"]
        ELSE Call("parseNonRootIndex", <<b.Data>>)

-----------------------------------------------------------------------------
(* hfile.Scanner (hfile/reader.go): Next and nextDataBlock over the file    *)
(* bytes.  A scanner is [cellIter, cell, err, stack]; err = "" is nil and   *)
(* stack = <<>> is the nil stack.  reads counts the ReadBlock calls made.   *)

EncodingNone == 0
EncodingFastDiff == 4

\* Reader.Scanner(): &Scanner{rd: rd}
NewScanner == [cellIter |-> NilIter, cell |-> NoCell, err |-> "", stack |-> <<>>]

\* a frame that starts on its first entry instead of before it
indexLevelMutFromZero(entries, pos) == [entries |-> entries, pos |-> 0]

indexLevel(entries, pos) == [entries |-> entries, pos |-> pos]

\* nextDataBlock: [stack, ok, entry, err, reads, panic]
RECURSIVE nextDataBlock(_, _, _, _)

\* nextDataBlock that reports done when a child frame is exhausted
nextDataBlockMutNoPop(r, bytes, stack0, reads) ==
    LET numLevels == IF r.dataIndex.NumDataIndexLevels > 1
                     THEN r.dataIndex.NumDataIndexLevels ELSE 1
        depth     == Len(stack0) - 1
        stack     == [stack0 EXCEPT ![depth + 1].pos = @ + 1]
        top       == stack[depth + 1]
        none      == IndexEntry(0, 0, <<>>)
    IN  IF top.pos >= Len(top.entries)
        THEN [stack |-> stack, ok |-> FALSE, entry |-> none, err |-> "",
              reads |-> reads, panic |-> FALSE]
        ELSE IF depth >= numLevels - 1
        THEN [stack |-> stack, ok |-> TRUE, entry |-> top.entries[top.pos + 1],
              err |-> "", reads |-> reads, panic |-> FALSE]
        ELSE LET children == Call("ReadNonRootIndex",
                                  <<bytes, top.entries[top.pos + 1].BlockOffset, r.decomp>>)
             IN  IF children.st # "ok"
                 THEN [stack |-> stack, ok |-> FALSE, entry |-> none,
                       err |-> "read index block", reads |-> reads + 1, panic |-> FALSE]
                 ELSE nextDataBlock(r, bytes,
                          Append(stack, indexLevel(children.Entries, -1)), reads + 1)

nextDataBlock(r, bytes, stack0, reads) ==
    LET numLevels == IF r.dataIndex.NumDataIndexLevels > 1
                     THEN r.dataIndex.NumDataIndexLevels ELSE 1
        depth     == Len(stack0) - 1
        stack     == [stack0 EXCEPT ![depth + 1].pos = @ + 1]
        top       == stack[depth + 1]
        none      == IndexEntry(0, 0, <<>>)
    IN  IF top.pos >= Len(top.entries)
        THEN IF depth = 0
             THEN [stack |-> stack, ok |-> FALSE, entry |-> none, err |-> "",
                   reads |-> reads, panic |-> FALSE]
             ELSE nextDataBlock(r, bytes, SubSeq(stack, 1, depth), reads)
        ELSE IF depth >= numLevels - 1
        THEN [stack |-> stack, ok |-> TRUE, entry |-> top.entries[top.pos + 1],
              err |-> "", reads |-> reads, panic |-> FALSE]
        ELSE LET entry    == top.entries[top.pos + 1]
                 children == Call("ReadNonRootIndex", <<bytes, entry.BlockOffset, r.decomp>>)
             IN  IF children.st = "panic"
                 THEN [stack |-> stack, ok |-> FALSE, entry |-> none, err |-> "",
                       reads |-> reads + 1, panic |-> TRUE]
                 ELSE IF children.st # "ok"
                 THEN [stack |-> stack, ok |-> FALSE, entry |-> none,
                       err |-> "read index block", reads |-> reads + 1, panic |-> FALSE]
                 ELSE nextDataBlock(r, bytes,
                          Append(stack, indexLevel(children.Entries, -1)), reads + 1)

\* The part of the loop of Scanner.Next after the cell iterator is exhausted.
\* Result of Next: [s, ret, reads, panic]
RECURSIVE ScannerLoop(_, _, _, _)
ScannerAdvance(r, bytes, s, reads) ==
    LET nd == Call("nextDataBlock", <<r, bytes, s.stack, reads>>)
        s1 == [s EXCEPT !.stack = nd.stack, !.err = nd.err]
    IN  IF nd.panic THEN [s |-> s1, ret |-> FALSE, reads |-> nd.reads, panic |-> TRUE]
        ELSE IF ~nd.ok THEN [s |-> s1, ret |-> FALSE, reads |-> nd.reads, panic |-> FALSE]
        ELSE
        LET b == Call("ReadBlock", <<bytes, nd.entry.BlockOffset, r.decomp>>)
        IN  IF b.st = "panic"
            THEN [s |-> s1, ret |-> FALSE, reads |-> nd.reads + 1, panic |-> TRUE]
            ELSE IF b.st # "ok"
            THEN [s |-> [s1 EXCEPT !.err = "read data block"], ret |-> FALSE,
                  reads |-> nd.reads + 1, panic |-> FALSE]
            ELSE IF b.Header.Type = "ENCODED_DATA" /\ Len(b.Data) < 2
            THEN [s |-> [s1 EXCEPT !.err = "encoded data block too short"],
                  ret |-> FALSE, reads |-> nd.reads + 1, panic |-> FALSE]
            ELSE IF b.Header.Type = "ENCODED_DATA" /\ Uint16(b.Data, 0) # r.encodingID
            THEN [s |-> [s1 EXCEPT !.err = "data block encoding mismatch"],
                  ret |-> FALSE, reads |-> nd.reads + 1, panic |-> FALSE]
            ELSE LET data == IF b.Header.Type = "ENCODED_DATA"
                             THEN Slice(b.Data, 2, Len(b.Data)) ELSE b.Data
                 IN  ScannerLoop(r, bytes,
                         [s1 EXCEPT !.cellIter = NewCellIterator(data, r.includeTags)],
                         nd.reads + 1)

\* The loop of Scanner.Next that ends at the end of a data block
ScannerLoopMutStopAtBlockEnd(r, bytes, s, reads) ==
    IF s.cellIter # NilIter
    THEN LET n == Call("CellIteratorNext", <<s.cellIter>>)
             s1 == [s EXCEPT !.cellIter = n.it]
         IN  IF n.panic THEN [s |-> s1, ret |-> FALSE, reads |-> reads, panic |-> TRUE]
             ELSE IF n.ok
             THEN [s |-> [s1 EXCEPT !.cell = n.it.cell], ret |-> TRUE,
                   reads |-> reads, panic |-> FALSE]
             ELSE [s |-> [s1 EXCEPT !.err = n.it.err], ret |-> FALSE,
                   reads |-> reads, panic |-> FALSE]
    ELSE ScannerAdvance(r, bytes, s, reads)

\* The loop of Scanner.Next
ScannerLoop(r, bytes, s, reads) ==
    IF s.cellIter # NilIter
    THEN LET n == Call("CellIteratorNext", <<s.cellIter>>)
             s1 == [s EXCEPT !.cellIter = n.it]
         IN  IF n.panic THEN [s |-> s1, ret |-> FALSE, reads |-> reads, panic |-> TRUE]
             ELSE IF n.ok
             THEN [s |-> [s1 EXCEPT !.cell = n.it.cell], ret |-> TRUE,
                   reads |-> reads, panic |-> FALSE]
             ELSE IF n.it.err # ""
             THEN [s |-> [s1 EXCEPT !.err = n.it.err], ret |-> FALSE,
                   reads |-> reads, panic |-> FALSE]
             ELSE ScannerAdvance(r, bytes, s1, reads)
    ELSE ScannerAdvance(r, bytes, s, reads)

\* Scanner.Next that builds the index stack anew on every call
ScannerNextCallMutRestart(r, bytes, s) ==
    IF s.err # "" THEN [s |-> s, ret |-> FALSE, reads |-> 0, panic |-> FALSE]
    ELSE ScannerLoop(r, bytes,
             [s EXCEPT !.stack = <<indexLevel(r.dataIndex.Entries, -1)>>], 0)

\* Scanner.Next without its first test of s.err
ScannerNextCallMutNoErrCheck(r, bytes, s) ==
    ScannerLoop(r, bytes,
        IF s.stack = <<>>
        THEN [s EXCEPT !.stack = <<indexLevel(r.dataIndex.Entries, -1)>>]
        ELSE s,
        0)

\* Scanner.Next: [s, ret, reads, panic]
ScannerNextCall(r, bytes, s) ==
    IF s.err # "" THEN [s |-> s, ret |-> FALSE, reads |-> 0, panic |-> FALSE]
    ELSE ScannerLoop(r, bytes,
             IF s.stack = <<>>
             THEN [s EXCEPT !.stack = <<indexLevel(r.dataIndex.Entries, -1)>>]
             ELSE s,
             0)

-----------------------------------------------------------------------------
(* Valid file images: the bytes a writer lays down for a list of cells, in *)
(* the layout the parsers above read.                                      *)

BE16(n) == <<n \div 256, n % 256>>

BE32(n) == <<n \div 16777216, (n \div 65536) % 256, (n \div 256) % 256, n % 256>>

\* a non-negative offset or timestamp below 2^31, or -1
BE64(n) ==
    IF n < 0 THEN <<255, 255, 255, 255, 255, 255, 255, 255>>
    ELSE <<0, 0, 0, 0>> \o BE32(n)

\* Hadoop VInt of 0 <= n <= 255, the inverse of readVInt
writeVInt(n) == IF n <= 127 THEN <<n>> ELSE <<143, n>>

\* The key of a cell: rowLen(2) row famLen(1) family qualifier timestamp(8) type(1)
EncodeKey(c) ==
    BE16(Len(c.Row)) \o c.Row \o <<Len(c.Family)>> \o c.Family \o c.Qualifier
    \o BE64(c.Timestamp) \o <<c.Type>>

\* keyLen(4) valLen(4) key value [tagsLen(2) tags] memstoreTS(vint)
EncodeCell(c, includeTags, memstoreTS) ==
    LET key == EncodeKey(c)
    IN  BE32(Len(key)) \o BE32(Len(c.Value)) \o key \o c.Value
        \o (IF includeTags THEN BE16(Len(c.Tags)) \o c.Tags ELSE <<>>)
        \o writeVInt(memstoreTS)

RECURSIVE EncodeCells(_, _, _)
EncodeCells(cells, includeTags, mvcc) ==
    IF cells = <<>> THEN <<>>
    ELSE Call("EncodeCell", <<Head(cells), includeTags, mvcc[1]>>)
         \o EncodeCells(Tail(cells), includeTags, Tail(mvcc))

\* a snappy block of literal elements of at most 60 bytes
RECURSIVE snappyLiteralsOf(_)
snappyLiteralsOf(d) ==
    IF d = <<>> THEN <<>>
    ELSE LET n == Min(Len(d), 60)
         IN  <<(n - 1) * 4>> \o SubSeq(d, 1, n) \o snappyLiteralsOf(SubSeq(d, n + 1, Len(d)))

\* one Hadoop block holding one chunk
hadoopBlockOf(chunk, size) == BE32(size) \o BE32(Len(chunk)) \o chunk

\* The on-disk data of a payload under the codec
Compress(codec, payload) ==
    CASE codec = "NONE"   -> payload
      [] codec = "GZ"     -> gzipMagic \o payload
      [] codec = "SNAPPY" -> hadoopBlockOf(<<Len(payload)>> \o snappyLiteralsOf(payload),
                                           Len(payload))
      [] codec = "ZSTD"   -> zstdFrameMagic \o <<Len(payload)>> \o payload

\* The checksums of header + data, one per chunk of bytesPerChecksum bytes
RECURSIVE ChecksumsOf(_, _, _, _)
ChecksumsOf(checksumType, bytesPerChecksum, combined, start) ==
    IF checksumType = checksumNull \/ start >= Len(combined) THEN <<>>
    ELSE Call("crc32Checksum", <<IF checksumType = checksumCRC32 THEN IEEETable ELSE castagnoliTable,
                       Slice(combined, start, Min(start + bytesPerChecksum, Len(combined)))>>)
         \o ChecksumsOf(checksumType, bytesPerChecksum, combined, start + bytesPerChecksum)

\* A block on disk: 33-byte header, on-disk data, checksums
EncodeBlock(magic, payload, codec, checksumType, bytesPerChecksum, prevOffset) ==
    LET data   == Call("Compress", <<codec, payload>>)
        nSums  == IF checksumType = checksumNull THEN 0
                  ELSE (blockHeaderSize + Len(data) + bytesPerChecksum - 1)
                       \div bytesPerChecksum
        header == magic \o BE32(Len(data) + 4 * nSums) \o BE32(Len(payload))
                  \o BE64(prevOffset) \o <<checksumType>> \o BE32(bytesPerChecksum)
                  \o BE32(blockHeaderSize + Len(data))
    IN  header \o data \o Call("ChecksumsOf", <<checksumType, bytesPerChecksum, header \o data, 0>>)

\* Root index payload: offset(8) dataSize(4) keyLen(vint) key per entry
RECURSIVE EncodeRootIndex(_)
EncodeRootIndex(entries) ==
    IF entries = <<>> THEN <<>>
    ELSE LET e == Head(entries)
         IN  BE64(e.BlockOffset) \o BE32(e.DataSize) \o writeVInt(Len(e.Key)) \o e.Key
             \o EncodeRootIndex(Tail(entries))

\* Non-root index payload: numEntries(4), numEntries + 1 relative offsets,
\* then offset(8) onDiskSize(4) key per entry
RECURSIVE EncodeSecondaryIndex(_, _)
EncodeSecondaryIndex(entries, off) ==
    IF entries = <<>> THEN BE32(off)
    ELSE BE32(off) \o EncodeSecondaryIndex(Tail(entries), off + 12 + Len(Head(entries).Key))

RECURSIVE EncodeNonRootEntries(_)
EncodeNonRootEntries(entries) ==
    IF entries = <<>> THEN <<>>
    ELSE LET e == Head(entries)
         IN  BE64(e.BlockOffset) \o BE32(e.DataSize) \o e.Key
             \o EncodeNonRootEntries(Tail(entries))

EncodeNonRootIndex(entries) ==
    BE32(Len(entries)) \o EncodeSecondaryIndex(entries, 0) \o EncodeNonRootEntries(entries)

\* How a file is written: codec name, checksum type, bytes per checksum,
\* tags or not, index levels, and the memstoreTS written after every cell.
FileOptions(codec, checksumType, bytesPerChecksum, includeTags, levels, memstoreTS) ==
    [codec |-> codec, checksumType |-> checksumType,
     bytesPerChecksum |-> bytesPerChecksum, includeTags |-> includeTags,
     levels |-> levels, memstoreTS |-> memstoreTS]

CodecOrdinal(codec) ==
    CASE codec = "GZ" -> CompressionGZ
      [] codec = "NONE" -> CompressionNone
      [] codec = "SNAPPY" -> CompressionSnappy
      [] codec = "ZSTD" -> CompressionZSTD

\* The data blocks one after the other, payloads given: [bytes, entries], the
\* entries being the index entries of the blocks written.
RECURSIVE WriteDataBlocks(_, _, _, _, _)
WriteDataBlocks(payloads, keys, o, bytes, entries) ==
    IF payloads = <<>> THEN [bytes |-> bytes, entries |-> entries]
    ELSE LET prev == IF entries = <<>> THEN -1 ELSE entries[Len(entries)].BlockOffset
             b    == Call("EncodeBlock", <<magicData, Head(payloads), o.codec, o.checksumType,
                                 o.bytesPerChecksum, prev>>)
         IN  WriteDataBlocks(Tail(payloads), Tail(keys), o, bytes \o b,
                             Append(entries, IndexEntry(Len(bytes), Len(b), Head(keys))))

\* Leaf index blocks over the entries, LeafFanout entries each: [bytes, entries]
LeafFanout == 2

RECURSIVE WriteLeafBlocks(_, _, _, _)
WriteLeafBlocks(below, o, bytes, entries) ==
    IF below = <<>> THEN [bytes |-> bytes, entries |-> entries]
    ELSE LET n     == Min(LeafFanout, Len(below))
             group == SubSeq(below, 1, n)
             prev  == IF entries = <<>> THEN -1 ELSE entries[Len(entries)].BlockOffset
             b     == Call("EncodeBlock", <<magicLeafIndex, Call("EncodeNonRootIndex", <<group>>), o.codec,
                                  o.checksumType, o.bytesPerChecksum, prev>>)
         IN  WriteLeafBlocks(SubSeq(below, n + 1, Len(below)), o, bytes \o b,
                             Append(entries, IndexEntry(Len(bytes), Len(b), group[1].Key)))

\* The parsed trailer of a file
Trailer(loadOnOpen, indexCount, levels, entryCount, codec) ==
    [LoadOnOpenDataOffset |-> loadOnOpen, DataIndexCount |-> indexCount,
     NumDataIndexLevels |-> levels, EntryCount |-> entryCount,
     CompressionCodec |-> codec]

\* The file of data-block payloads with first keys keys, holding entryCount
\* cells: [bytes, trailer]
WriteFile(payloads, keys, entryCount, o) ==
    LET d    == WriteDataBlocks(payloads, keys, o, <<>>, <<>>)
        l    == IF o.levels > 1 THEN WriteLeafBlocks(d.entries, o, d.bytes, <<>>) ELSE d
        root == Call("EncodeBlock", <<magicRootIndex,
                            Call("EncodeRootIndex", <<l.entries>>)
                            \o (IF o.levels > 1 THEN BE64(0) \o BE32(0) \o BE32(0) ELSE <<>>),
                            o.codec, o.checksumType, o.bytesPerChecksum, -1>>)
    IN  [bytes   |-> l.bytes \o root,
         trailer |-> Trailer(Len(l.bytes), Len(l.entries), o.levels, entryCount,
                             CodecOrdinal(o.codec))]

\* Open, after the trailer and the file info are parsed: the decompressor for
\* the codec and the root data index.  [st, rd]
Open(bytes, trailer, includeTags, encodingID) ==
    LET decomp == DecompressorForCodec(trailer.CompressionCodec)
    IN  IF decomp = "" THEN [st |-> "err", msg |-> "unsupported compression codec"]
        ELSE LET x == Call("ReadRootIndex", <<bytes, trailer.LoadOnOpenDataOffset,
                                    trailer.DataIndexCount, trailer.NumDataIndexLevels,
                                    decomp>>)
             IN  IF x.st # "ok" THEN [st |-> x.st, msg |-> "read data index"]
                 ELSE [st |-> "ok",
                       rd |-> [decomp |-> decomp, trailer |-> trailer,
                               dataIndex |-> [Entries |-> x.Entries,
                                              NumDataIndexLevels |-> x.NumDataIndexLevels],
                               includeTags |-> includeTags, encodingID |-> encodingID]]

-----------------------------------------------------------------------------
(* Scanner.Seek.  Keys are raw cell keys, full or cut after the row or     *)
(* after the qualifier, built by makeCellKey, makeRowKey and               *)
(* makeRowFamilyQualifierKey; they are compared as byte strings, so that a *)
(* prefix sorts before every key that continues it.  Per index level Seek  *)
(* searches the last entry whose key is <= the target, descends, restarts  *)
(* the scan at that data block and skips the cells below the target.       *)

makeCellKey(row, family, qualifier, timestamp, cellType) ==
    BE16(Len(row)) \o row \o <<Len(family)>> \o family \o qualifier
    \o BE64(timestamp) \o <<cellType>>

makeRowKey(row) == BE16(Len(row)) \o row

makeRowFamilyQualifierKey(row, family, qualifier) ==
    BE16(Len(row)) \o row \o <<Len(family)>> \o family \o qualifier

\* Binary search: the number of leading entries whose key is <= key, when
\* the keys are sorted
RECURSIVE seekSearch(_, _, _, _)
seekSearch(entries, key, lo, hi) ==
    IF lo >= hi THEN lo
    ELSE LET h == (lo + hi) \div 2
         IN  IF BytesCompare(entries[h + 1].Key, key) <= 0
             THEN seekSearch(entries, key, h + 1, hi)
             ELSE seekSearch(entries, key, lo, h)

\* The 0-based position of the last entry whose key is <= key, 0 when none
seekIndex(entries, key) ==
    LET n == seekSearch(entries, key, 0, Len(entries))
    IN  IF n = 0 THEN 0 ELSE n - 1

\* The index stack that stands before the data block of the target:
\* [stack, err, reads, panic]
RECURSIVE seekDescend(_, _, _, _, _, _)
seekDescend(r, bytes, key, stack, entries, reads) ==
    LET numLevels == IF r.dataIndex.NumDataIndexLevels > 1
                     THEN r.dataIndex.NumDataIndexLevels ELSE 1
        i         == seekIndex(entries, key)
    IN  IF entries = <<>> \/ Len(stack) + 1 >= numLevels
        THEN [stack |-> Append(stack, indexLevel(entries, i - 1)), err |-> "",
              reads |-> reads, panic |-> FALSE]
        ELSE LET children == Call("ReadNonRootIndex",
                                  <<bytes, entries[i + 1].BlockOffset, r.decomp>>)
                 here     == Append(stack, indexLevel(entries, i))
             IN  IF children.st = "panic"
                 THEN [stack |-> here, err |-> "", reads |-> reads + 1, panic |-> TRUE]
                 ELSE IF children.st # "ok"
                 THEN [stack |-> here, err |-> "read index block",
                       reads |-> reads + 1, panic |-> FALSE]
                 ELSE seekDescend(r, bytes, key, here, children.Entries, reads + 1)

\* The forward scan of Seek: cells below the target are discarded
RECURSIVE seekScan(_, _, _, _, _)
seekScan(r, bytes, s, key, reads) ==
    LET n == ScannerLoop(r, bytes, s, reads)
    IN  IF n.panic \/ ~n.ret THEN n
        ELSE IF BytesCompare(EncodeKey(n.s.cell), key) < 0
        THEN seekScan(r, bytes, n.s, key, n.reads)
        ELSE n

\* Scanner.Seek(key): [s, ret, reads, panic]
ScannerSeekCall(r, bytes, s, key) ==
    IF s.err # "" THEN [s |-> s, ret |-> FALSE, reads |-> 0, panic |-> FALSE]
    ELSE LET d  == seekDescend(r, bytes, key, <<>>, r.dataIndex.Entries, 0)
             s1 == [s EXCEPT !.stack = d.stack, !.err = d.err,
                             !.cellIter = NilIter, !.cell = NoCell]
         IN  IF d.panic \/ d.err # ""
             THEN [s |-> s1, ret |-> FALSE, reads |-> d.reads, panic |-> d.panic]
             ELSE seekScan(r, bytes, s1, key, d.reads)

-----------------------------------------------------------------------------
(* FAST_DIFF (hfile/reader.go): the decoder of delta-encoded data blocks,  *)
(* which rebuilds each key in keyBuf from the key before it.               *)

maskTimestampLength == 7
flagSameKeyLength == 8
flagSameValueLength == 16
flagSameType == 32
flagSameValue == 64

\* flag & mask # 0, for a mask of one bit
FlagSet(flag, mask) == (flag \div mask) % 2 = 1

\* readCompressedInt: [st, val, n]
RECURSIVE readCompressedIntLoop(_, _, _, _, _)
readCompressedIntLoop(buf, offset, i, result, shift) ==
    IF i >= Len(buf)
    THEN [st |-> "err", msg |-> "compressed int extends past end of buffer"]
    ELSE IF shift >= 31 THEN [st |-> "err", msg |-> "compressed int overflow"]
    ELSE LET b == At(buf, i)
             r == IF shift >= 28 /\ b % 128 >= 1 THEN Huge
                  ELSE result + (b % 128) * 2^shift
         IN  IF b < 128 THEN [st |-> "ok", val |-> r, n |-> i - offset + 1]
             ELSE readCompressedIntLoop(buf, offset, i + 1, r, shift + 7)

readCompressedInt(buf, offset) == readCompressedIntLoop(buf, offset, offset, 0, 0)

\* copy(buf[at:], bytes), all of bytes fitting
copyAt(buf, at, bytes) ==
    SubSeq([i \in 1..Len(buf) |->
               IF i > at /\ i <= at + Len(bytes) THEN bytes[i - at] ELSE buf[i]],
           1, Len(buf))

\* the key buffer made keyLen long when it is shorter
growKeyBuf(keyBuf, keyLen) ==
    IF Len(keyBuf) < keyLen
    THEN keyBuf \o SubSeq([i \in 1..keyLen |-> 0], 1, keyLen - Len(keyBuf))
    ELSE keyBuf

\* the family that stays where it was when the row length changes
fdMoveFamilyMutStay(keyBuf, old, new, famLen) == keyBuf

\* copy(keyBuf[new:new+famLen], keyBuf[old:old+famLen])
fdMoveFamily(keyBuf, old, new, famLen) ==
    copyAt(keyBuf, new, Slice(keyBuf, old, old + famLen))

\* The variables of the loop of Decode before the first cell
fdStart ==
    [out |-> <<>>, pos |-> 4, keyLen |-> 0, valLen |-> 0, keyBuf |-> <<>>,
     prevValue |-> <<>>, rowLenWithSize |-> 0, famLenWithSize |-> 0,
     prevTimestampType |-> <<0, 0, 0, 0, 0, 0, 0, 0, 0>>, isFirst |-> TRUE]

\* One iteration, from the flag to the common prefix: [st, d, commonPrefix]
fdLengths(src, d, flag) ==
    LET changed == ~FlagSet(flag, flagSameKeyLength)
        saved   == IF ~d.isFirst /\ changed
                   THEN Slice(d.keyBuf, d.keyLen - 9, d.keyLen)
                   ELSE d.prevTimestampType
        k       == IF changed THEN Call("readCompressedInt", <<src, d.pos + 1>>)
                   ELSE [st |-> "ok", val |-> d.keyLen, n |-> 0]
    IN  IF k.st # "ok" THEN [st |-> "err", msg |-> "FAST_DIFF read key length"]
        ELSE
        LET v == IF ~FlagSet(flag, flagSameValueLength)
                 THEN Call("readCompressedInt", <<src, d.pos + 1 + k.n>>)
                 ELSE [st |-> "ok", val |-> d.valLen, n |-> 0]
        IN  IF v.st # "ok" THEN [st |-> "err", msg |-> "FAST_DIFF read value length"]
            ELSE
            LET c == Call("readCompressedInt", <<src, d.pos + 1 + k.n + v.n>>)
            IN  IF c.st # "ok" THEN [st |-> "err", msg |-> "FAST_DIFF read common prefix"]
                ELSE IF c.val > k.val - 9
                THEN [st |-> "err", msg |-> "FAST_DIFF common prefix exceeds key data length"]
                ELSE [st |-> "ok", commonPrefix |-> c.val,
                      d |-> [d EXCEPT !.pos = d.pos + 1 + k.n + v.n + c.n,
                                      !.keyLen = k.val, !.valLen = v.val,
                                      !.prevTimestampType = saved,
                                      !.keyBuf = growKeyBuf(d.keyBuf, k.val)]]

\* The qualifier read after the row: [st, d]
fdQualifier(src, d, keyBuf, pos, rowLenWithSize) ==
    LET qualLen == (d.keyLen - 9) - rowLenWithSize - d.famLenWithSize
    IN  IF qualLen < 0 THEN [st |-> "err", msg |-> "FAST_DIFF negative qualifier length"]
        ELSE IF pos + qualLen > Len(src)
        THEN [st |-> "err", msg |-> "FAST_DIFF qualifier extends past buffer"]
        ELSE [st |-> "ok",
              d |-> [d EXCEPT !.keyBuf = copyAt(keyBuf, rowLenWithSize + d.famLenWithSize,
                                                Slice(src, pos, pos + qualLen)),
                              !.pos = pos + qualLen,
                              !.rowLenWithSize = rowLenWithSize]]

\* The key bytes before the timestamp, first cell: [st, d]
fdFirstKey(src, d, commonPrefix) ==
    LET keyDataLen == d.keyLen - 9
    IN  IF d.pos + keyDataLen > Len(src)
        THEN [st |-> "err", msg |-> "FAST_DIFF first cell key data extends past buffer"]
        ELSE
        LET keyBuf == copyAt(d.keyBuf, commonPrefix,
                             Slice(src, d.pos, d.pos + (keyDataLen - commonPrefix)))
            row    == Uint16(keyBuf, 0) + 2
        IN  IF Len(keyBuf) < 2 THEN [st |-> "panic", msg |-> "slice bounds out of range"]
            ELSE IF row >= keyDataLen
            THEN [st |-> "err", msg |-> "FAST_DIFF row length exceeds key data length"]
            ELSE IF row + At(keyBuf, row) + 1 > keyDataLen
            THEN [st |-> "err", msg |-> "FAST_DIFF row+family length exceeds key data length"]
            ELSE [st |-> "ok",
                  d |-> [d EXCEPT !.keyBuf = keyBuf,
                                  !.pos = d.pos + (keyDataLen - commonPrefix),
                                  !.rowLenWithSize = row,
                                  !.famLenWithSize = At(keyBuf, row) + 1]]

\* The key bytes before the timestamp when the row length changed: [st, d]
fdRowLengthChanged(src, d, commonPrefix) ==
    LET need == 2 - commonPrefix
    IN  IF d.pos + need > Len(src)
        THEN [st |-> "err", msg |-> "FAST_DIFF row length extends past buffer"]
        ELSE
        LET kb1 == copyAt(d.keyBuf, commonPrefix, Slice(src, d.pos, d.pos + need))
            row == Uint16(kb1, 0) + 2
            pos == d.pos + need
        IN  IF row >= d.keyLen - 9
            THEN [st |-> "err", msg |-> "FAST_DIFF row length exceeds key data length"]
            ELSE IF row + d.famLenWithSize > Len(kb1)
                    \/ d.rowLenWithSize + d.famLenWithSize > Len(kb1)
            THEN [st |-> "panic", msg |-> "slice bounds out of range"]
            ELSE IF pos + (row - 2) > Len(src)
            THEN [st |-> "err", msg |-> "FAST_DIFF row data extends past buffer"]
            ELSE fdQualifier(src, d,
                     copyAt(fdMoveFamily(kb1, d.rowLenWithSize, row, d.famLenWithSize),
                            2, Slice(src, pos, pos + (row - 2))),
                     pos + (row - 2), row)

\* The key bytes before the timestamp, cells after the first: [st, d]
fdKey(src, d, commonPrefix) ==
    IF d.isFirst THEN fdFirstKey(src, d, commonPrefix)
    ELSE IF commonPrefix < 2 THEN fdRowLengthChanged(src, d, commonPrefix)
    ELSE IF commonPrefix < d.rowLenWithSize
    THEN LET rowRest == d.rowLenWithSize - commonPrefix
         IN  IF d.pos + rowRest > Len(src)
             THEN [st |-> "err", msg |-> "FAST_DIFF row suffix extends past buffer"]
             ELSE IF d.rowLenWithSize > Len(d.keyBuf)
             THEN [st |-> "panic", msg |-> "slice bounds out of range"]
             ELSE fdQualifier(src, d,
                      copyAt(d.keyBuf, commonPrefix, Slice(src, d.pos, d.pos + rowRest)),
                      d.pos + rowRest, d.rowLenWithSize)
    ELSE LET suffixLen == (d.keyLen - 9) - commonPrefix
         IN  IF suffixLen < 0 THEN [st |-> "err", msg |-> "FAST_DIFF negative suffix length"]
             ELSE IF d.pos + suffixLen > Len(src)
             THEN [st |-> "err", msg |-> "FAST_DIFF qualifier suffix extends past buffer"]
             ELSE [st |-> "ok",
                   d |-> [d EXCEPT !.keyBuf = copyAt(d.keyBuf, commonPrefix,
                                                     Slice(src, d.pos, d.pos + suffixLen)),
                                   !.pos = d.pos + suffixLen]]

\* Timestamp and type: [st, d]
fdTimestampType(src, d, flag) ==
    LET tsPos   == d.keyLen - 9
        common  == flag % (maskTimestampLength + 1)
        changed == ~FlagSet(flag, flagSameKeyLength)
        kb1     == IF ~d.isFirst /\ changed
                   THEN copyAt(d.keyBuf, tsPos, SubSeq(d.prevTimestampType, 1, common))
                   ELSE d.keyBuf
        pos     == d.pos + (8 - common)
    IN  IF pos > Len(src) THEN [st |-> "err", msg |-> "FAST_DIFF timestamp extends past buffer"]
        ELSE
        LET kb2 == copyAt(kb1, tsPos + common, Slice(src, d.pos, pos))
        IN  IF d.isFirst \/ ~FlagSet(flag, flagSameType)
            THEN IF pos >= Len(src)
                 THEN [st |-> "err", msg |-> "FAST_DIFF type byte extends past buffer"]
                 ELSE [st |-> "ok",
                       d |-> [d EXCEPT !.keyBuf = copyAt(kb2, d.keyLen - 1, <<At(src, pos)>>),
                                       !.pos = pos + 1]]
            ELSE IF changed
            THEN [st |-> "ok",
                  d |-> [d EXCEPT !.keyBuf = copyAt(kb2, d.keyLen - 1,
                                                    <<d.prevTimestampType[9]>>),
                                  !.pos = pos]]
            ELSE [st |-> "ok", d |-> [d EXCEPT !.keyBuf = kb2, !.pos = pos]]

\* Tags and memstoreTS copied to the output: [st, d]
fdTagsMemstoreTS(src, d, includeTags) ==
    LET t == IF includeTags THEN Call("readCompressedInt", <<src, d.pos>>)
             ELSE [st |-> "ok", val |-> 0, n |-> 0]
    IN  IF t.st # "ok" THEN [st |-> "err", msg |-> "FAST_DIFF read tags length"]
        ELSE IF d.pos + t.n + t.val > Len(src)
        THEN [st |-> "err", msg |-> "FAST_DIFF tags data extends past buffer"]
        ELSE
        LET pos  == d.pos + t.n + t.val
            out1 == IF includeTags
                    THEN d.out \o BE16(t.val % 65536) \o Slice(src, d.pos + t.n, pos)
                    ELSE d.out
        IN  IF pos < Len(src)
            THEN LET v == Call("readVInt", <<src, pos>>)
                 IN  IF v.st # "ok" THEN [st |-> "err", msg |-> "FAST_DIFF read memstoreTS"]
                     ELSE [st |-> "ok",
                           d |-> [d EXCEPT !.out = out1 \o Slice(src, pos, pos + v.n),
                                           !.pos = pos + v.n]]
            ELSE [st |-> "ok", d |-> [d EXCEPT !.out = out1, !.pos = pos]]

\* Value, the cell written in NONE format, tags and memstoreTS: [st, d]
fdValueOut(src, d, flag, includeTags) ==
    LET fresh == d.isFirst \/ ~FlagSet(flag, flagSameValue)
    IN  IF fresh /\ d.pos + d.valLen > Len(src)
        THEN [st |-> "err", msg |-> "FAST_DIFF value extends past buffer"]
        ELSE
        LET value == IF fresh THEN Slice(src, d.pos, d.pos + d.valLen) ELSE d.prevValue
            t     == Call("fdTagsMemstoreTS",
                          <<src,
                            [d EXCEPT !.out = d.out \o BE32(d.keyLen) \o BE32(d.valLen)
                                                \o SubSeq(d.keyBuf, 1, d.keyLen) \o value,
                                      !.pos = IF fresh THEN d.pos + d.valLen ELSE d.pos],
                            includeTags>>)
        IN  IF t.st # "ok" THEN t
            ELSE [st |-> "ok",
                  d |-> [t.d EXCEPT !.prevValue = value, !.isFirst = FALSE]]

\* The loop of Decode: [st, out]
RECURSIVE fastDiffLoop(_, _, _)
fastDiffLoop(src, d, includeTags) ==
    IF d.pos >= Len(src) THEN [st |-> "ok", out |-> d.out]
    ELSE LET flag == At(src, d.pos)
             l    == Call("fdLengths", <<src, d, flag>>)
         IN  IF l.st # "ok" THEN l
             ELSE LET k == Call("fdKey", <<src, l.d, l.commonPrefix>>)
                  IN  IF k.st # "ok" THEN k
                      ELSE LET t == Call("fdTimestampType", <<src, k.d, flag>>)
                           IN  IF t.st # "ok" THEN t
                               ELSE LET v == Call("fdValueOut", <<src, t.d, flag, includeTags>>)
                                    IN  IF v.st # "ok" THEN v
                                        ELSE fastDiffLoop(src, v.d, includeTags)

\* fastDiffDecoder.Decode(src): [st, out]
fastDiffDecode(src, includeTags) ==
    IF Len(src) < 4
    THEN [st |-> "err", msg |-> "FAST_DIFF block too short for decompressed size"]
    ELSE fastDiffLoop(src, fdStart, includeTags)

\* The delta encoding the decoder reads.  A cell after the first is written
\* against the cell before it: the flag, the key and value lengths unless
\* flagged the same, the length of the common prefix of the two keys (the
\* family counted as common), what follows it of the row and the qualifier,
\* the timestamp after its common prefix, the type and the value unless
\* flagged the same; then the tags and the memstoreTS.  A flag in drop is
\* left unset where it could be set.

\* The number of leading bytes a and b share
CommonLen(a, b) ==
    Cardinality({ n \in 1..Min(Len(a), Len(b)) : \A i \in 1..n : a[i] = b[i] })

RECURSIVE putCompressedInt(_)
putCompressedInt(v) ==
    IF v < 128 THEN <<v>> ELSE <<128 + (v % 128)>> \o putCompressedInt(v \div 128)

fdCommonPrefix(c, p) ==
    IF Len(c.Row) # Len(p.Row) THEN CommonLen(BE16(Len(c.Row)), BE16(Len(p.Row)))
    ELSE IF CommonLen(c.Row, p.Row) # Len(c.Row) THEN 2 + CommonLen(c.Row, p.Row)
    ELSE 2 + Len(c.Row) + 1 + Len(c.Family) + CommonLen(c.Qualifier, p.Qualifier)

fdFlag(c, p, drop) ==
    Min(7, CommonLen(BE64(c.Timestamp), BE64(p.Timestamp)))
    + (IF Len(EncodeKey(c)) = Len(EncodeKey(p)) /\ flagSameKeyLength \notin drop
       THEN flagSameKeyLength ELSE 0)
    + (IF Len(c.Value) = Len(p.Value) /\ flagSameValueLength \notin drop
       THEN flagSameValueLength ELSE 0)
    + (IF c.Type = p.Type /\ flagSameType \notin drop THEN flagSameType ELSE 0)
    + (IF c.Value = p.Value /\ flagSameValue \notin drop THEN flagSameValue ELSE 0)

fdEncodeAfter(c, includeTags, memstoreTS) ==
    (IF includeTags THEN putCompressedInt(Len(c.Tags)) \o c.Tags ELSE <<>>)
    \o writeVInt(memstoreTS)

fdEncodeFirst(c, includeTags, memstoreTS) ==
    <<0>> \o putCompressedInt(Len(EncodeKey(c))) \o putCompressedInt(Len(c.Value))
    \o putCompressedInt(0) \o EncodeKey(c) \o c.Value
    \o fdEncodeAfter(c, includeTags, memstoreTS)

fdEncodeNext(c, p, drop, includeTags, memstoreTS) ==
    LET flag == fdFlag(c, p, drop)
        cp   == fdCommonPrefix(c, p)
        rLen == Len(c.Row)
    IN  <<flag>>
        \o (IF FlagSet(flag, flagSameKeyLength) THEN <<>>
            ELSE putCompressedInt(Len(EncodeKey(c))))
        \o (IF FlagSet(flag, flagSameValueLength) THEN <<>>
            ELSE putCompressedInt(Len(c.Value)))
        \o putCompressedInt(cp)
        \o (IF cp < rLen + 2
            THEN (IF cp = 0 THEN BE16(rLen) \o c.Row
                  ELSE IF cp = 1 THEN <<rLen % 256>> \o c.Row
                  ELSE SubSeq(c.Row, cp - 1, rLen))
                 \o c.Qualifier
            ELSE SubSeq(c.Qualifier, cp - (rLen + 2) - (Len(c.Family) + 1) + 1,
                        Len(c.Qualifier)))
        \o SubSeq(BE64(c.Timestamp), (flag % 8) + 1, 8)
        \o (IF FlagSet(flag, flagSameType) THEN <<>> ELSE <<c.Type>>)
        \o (IF FlagSet(flag, flagSameValue) THEN <<>> ELSE c.Value)
        \o fdEncodeAfter(c, includeTags, memstoreTS)

RECURSIVE fdEncodeFrom(_, _, _, _, _)
fdEncodeFrom(cells, i, drop, includeTags, memstoreTS) ==
    IF i > Len(cells) THEN <<>>
    ELSE (IF i = 1 THEN Call("fdEncodeFirst", <<cells[1], includeTags, memstoreTS>>)
          ELSE Call("fdEncodeNext", <<cells[i], cells[i - 1], drop, includeTags, memstoreTS>>))
         \o fdEncodeFrom(cells, i + 1, drop, includeTags, memstoreTS)

\* The payload of an encoded block after its encoding id
fdEncode(cells, drop, includeTags, memstoreTS) ==
    BE32(Len(EncodeCells(cells, includeTags, [i \in 1..Len(cells) |-> memstoreTS])))
    \o fdEncodeFrom(cells, 1, drop, includeTags, memstoreTS)

-----------------------------------------------------------------------------
(* Bloom filters (hfile/encoding.go).  A 32-bit value is a word of four    *)
(* bytes, most significant first.                                          *)

\* x + y in 32 bits
WordAdd(x, y) ==
    LET s4 == x[4] + y[4]
        s3 == x[3] + y[3] + (s4 \div 256)
        s2 == x[2] + y[2] + (s3 \div 256)
        s1 == x[1] + y[1] + (s2 \div 256)
    IN  <<s1 % 256, s2 % 256, s3 % 256, s4 % 256>>

\* x * y in 32 bits
WordMul(x, y) ==
    LET c0 == x[4] * y[4]
        c1 == x[4] * y[3] + x[3] * y[4] + (c0 \div 256)
        c2 == x[4] * y[2] + x[3] * y[3] + x[2] * y[4] + (c1 \div 256)
        c3 == x[4] * y[1] + x[3] * y[2] + x[2] * y[3] + x[1] * y[4] + (c2 \div 256)
    IN  <<c3 % 256, c2 % 256, c1 % 256, c0 % 256>>

\* uint32(x) >> n
RECURSIVE WordShr(_, _)
WordShr(x, n) ==
    IF n >= 8 THEN WordShr(WordShr8(x), n - 8)
    ELSE LET p == 2^n
             q == 2^(8 - n)
         IN  << x[1] \div p,
                (x[2] \div p) + (x[1] % p) * q,
                (x[3] \div p) + (x[2] % p) * q,
                (x[4] \div p) + (x[3] % p) * q >>

\* the int32 a word stands for
WordInt32(x) ==
    SignedByte(x[1]) * 16777216 + x[2] * 65536 + x[3] * 256 + x[4]

\* int32(int8(b)): the byte, sign-extended
SignExtend(b) ==
    IF b >= 128 THEN <<255, 255, 255, b>> ELSE <<0, 0, 0, b>>

\* const m int32 = 0x5bd1e995
murmurM == <<91, 209, 233, 149>>

\* the loop of murmurHash over the 4-byte blocks from block i on
RECURSIVE murmurBlocks(_, _, _, _)
murmurBlocks(key, i, nblocks, h) ==
    IF i >= nblocks THEN h
    ELSE LET i4 == i * 4
             k1 == Call("WordMul", <<<<At(key, i4 + 3), At(key, i4 + 2), At(key, i4 + 1),
                                       At(key, i4)>>, murmurM>>)
             k2 == Call("WordXor", <<k1, Call("WordShr", <<k1, 24>>)>>)
             k3 == Call("WordMul", <<k2, murmurM>>)
         IN  murmurBlocks(key, i + 1, nblocks,
                          Call("WordXor", <<Call("WordMul", <<h, murmurM>>), k3>>))

\* murmurHash after the blocks: the left bytes from tail on are mixed into h
murmurTail(key, tail, left, h) ==
    LET e2 == IF left >= 3 THEN SignExtend(At(key, tail + 2)) ELSE <<0, 0, 0, 0>>
        e1 == IF left >= 2 THEN SignExtend(At(key, tail + 1)) ELSE <<0, 0, 0, 0>>
        h2 == Call("WordXor", <<Call("WordXor", <<h, <<e2[3], e2[4], 0, 0>>>>),
                                <<e1[2], e1[3], e1[4], 0>>>>)
    IN  IF left >= 1
        THEN Call("WordMul", <<Call("WordXor", <<h2, SignExtend(At(key, tail))>>), murmurM>>)
        ELSE h

\* the last three steps of murmurHash
murmurFinal(h) ==
    LET h4 == Call("WordXor", <<h, WordShr(h, 13)>>)
        h5 == Call("WordMul", <<h4, murmurM>>)
    IN  Call("WordXor", <<h5, Call("WordShr", <<h5, 15>>)>>)

\* murmurHash(key, seed): MurmurHash2, seed and result as words
murmurHash(key, seed) ==
    Call("murmurFinal",
         <<Call("murmurTail",
                <<key, (Len(key) \div 4) * 4, Len(key) % 4,
                  murmurBlocks(key, 0, Len(key) \div 4, WordXor(seed, BE32(Len(key))))>>)>>)

\* compareBytes(a, b)
compareBytes(a, b) == BytesCompare(a, b)

\* checkBit(data, pos)
checkBit(data, pos) ==
    LET bytePos == pos \div 8
        bitPos  == pos % 8
    IN  (At(data, bytePos) \div (2^bitPos)) % 2 # 0

\* int(math.Abs(float64(compositeHash % int32(bloomBitSize)))): the remainder
\* of the int32 division has the sign of compositeHash
hashLoc(compositeHash, bloomBitSize) ==
    LET r == compositeHash % bloomBitSize
    IN  IF compositeHash >= 0 \/ r = 0 THEN r ELSE bloomBitSize - r

\* the loop of containsInChunk with n iterations left
RECURSIVE containsLoop(_, _, _, _, _)
containsLoop(bloomData, bloomBitSize, compositeHash, hash2, n) ==
    IF n <= 0 THEN TRUE
    ELSE IF ~checkBit(bloomData, Call("hashLoc", <<WordInt32(compositeHash), bloomBitSize>>))
    THEN FALSE
    ELSE containsLoop(bloomData, bloomBitSize, WordAdd(compositeHash, hash2), hash2, n - 1)

\* BloomFilter.containsInChunk(key, bloomData)
containsInChunk(f, key, bloomData) ==
    LET hash1 == Call("murmurHash", <<key, <<0, 0, 0, 0>>>>)
        bloomBitSize == Len(bloomData) * 8
    IN  IF bloomBitSize = 0 THEN FALSE
        ELSE containsLoop(bloomData, bloomBitSize, hash1, Call("murmurHash", <<key, hash1>>),
                          f.HashCount)

\* the loop of findChunk
RECURSIVE findChunkLoop(_, _, _, _, _)
findChunkLoop(entries, key, lo, hi, result) ==
    IF lo > hi THEN result
    ELSE LET mid == lo + ((hi - lo) \div 2)
         IN  IF compareBytes(key, At(entries, mid).Key) >= 0
             THEN findChunkLoop(entries, key, mid + 1, hi, mid)
             ELSE findChunkLoop(entries, key, lo, mid - 1, result)

\* findChunk with the chunk of a key chosen as the last entry whose key is
\* strictly before the key
findChunkMutStrict(entries, key) ==
    LET before == {i \in 0..(Len(entries) - 1) : compareBytes(key, At(entries, i).Key) > 0}
    IN  IF before = {} THEN -1 ELSE CHOOSE i \in before : \A j \in before : j <= i

\* BloomFilter.findChunk(key): the last entry whose key <= key, -1 for none
findChunk(entries, key) ==
    findChunkLoop(entries, key, 0, Len(entries) - 1, -1)

\* ReadBloomFilter(r, offset, decomp): [st, f], f the BloomFilter
ReadBloomFilter(bytes, offset, decomp) ==
    LET blk0 == Call("ReadBlock", <<bytes, offset, decomp>>)
    IN  IF blk0.st = "panic" THEN blk0
        ELSE IF blk0.st # "ok" THEN [st |-> "err", msg |-> "read bloom meta block"]
        ELSE IF blk0.Header.Type # "GENERAL_BLOOM_META"
        THEN [st |-> "err", msg |-> "expected GENERAL_BLOOM_META block"]
        ELSE IF Len(blk0.Data) < 40
        THEN [st |-> "err", msg |-> "bloom meta block too small"]
        ELSE IF Int32(blk0.Data, 0) # 3
        THEN [st |-> "err", msg |-> "unsupported bloom filter version"]
        ELSE
        LET data == blk0.Data
            comparator == Call("readByteArray", <<data, 40>>)
        IN  IF comparator.st # "ok"
            THEN [st |-> "err", msg |-> "read bloom comparator"]
            ELSE
            LET NumChunks == Int32(data, 36)
                idx == Call("parseRootIndex", <<Slice(data, 40 + comparator.n, Len(data)),
                                                NumChunks>>)
            IN  IF idx.st # "ok" THEN [st |-> "err", msg |-> "read bloom chunk index"]
                ELSE [st |-> "ok",
                      f |-> [TotalByteSize |-> Uint64(data, 4),
                             HashCount |-> Int32(data, 12),
                             HashType |-> Int32(data, 16),
                             TotalKeyCount |-> Uint64(data, 20),
                             TotalMaxKeys |-> Uint64(data, 28),
                             NumChunks |-> NumChunks,
                             Comparator |-> comparator.bytes,
                             ChunkIndex |-> [Entries |-> idx.Entries],
                             decomp |-> decomp]]

\* BloomFilter.MayContain(key): [ret, err, chunk], chunk the index of the
\* chunk read, -1 when none was
MayContain(f, bytes, key) ==
    IF f.NumChunks = 0 THEN [ret |-> TRUE, err |-> "", chunk |-> -1]
    ELSE
    LET chunkIdx == Call("findChunk", <<f.ChunkIndex.Entries, key>>)
    IN  IF chunkIdx < 0 THEN [ret |-> FALSE, err |-> "", chunk |-> -1]
        ELSE
        LET b == Call("ReadBlock", <<bytes, At(f.ChunkIndex.Entries, chunkIdx).BlockOffset,
                                     f.decomp>>)
        IN  IF b.st # "ok"
            THEN [ret |-> FALSE, chunk |-> chunkIdx,
                  err |-> IF b.st = "panic" THEN "panic" ELSE "read bloom chunk"]
            ELSE [ret |-> Call("containsInChunk", <<f, key, b.Data>>), err |-> "",
                  chunk |-> chunkIdx]

-----------------------------------------------------------------------------
(* Writing a bloom filter: the row keys, in increasing order, go to chunks *)
(* of keysPerChunk keys; a chunk is a bit array of byteSize bytes in a     *)
(* BLOOM_CHUNK block, and the GENERAL_BLOOM_META block holds the counts    *)
(* and the index of the chunks, keyed by the first key of each.            *)

\* The bits a key sets in a chunk of bloomBitSize bits: bit
\* |(hash1 + i * hash2) % bloomBitSize|, in 32 bits, for i < hashCount
BloomBitsOf(key, hashCount, bloomBitSize) ==
    LET hash1 == Call("murmurHash", <<key, <<0, 0, 0, 0>>>>)
        hash2 == Call("murmurHash", <<key, hash1>>)
    IN  { Call("hashLoc",
               <<WordInt32(Call("WordAdd", <<hash1, Call("WordMul", <<BE32(i), hash2>>)>>)),
                 bloomBitSize>>) :
            i \in 0..(hashCount - 1) }

\* The byte array of byteSize bytes with the bits of set: bit pos is bit
\* pos % 8 of byte pos / 8, counted from the least significant
BloomBytes(set, byteSize) ==
    SubSeq([j \in 1..byteSize |->
               LET bit(b) == IF (8 * (j - 1) + b) \in set THEN 2^b ELSE 0
               IN  bit(0) + bit(1) + bit(2) + bit(3) + bit(4) + bit(5) + bit(6) + bit(7)],
           1, byteSize)

\* The bit array of a chunk holding the keys
BloomChunkData(keys, byteSize, hashCount) ==
    Call("BloomBytes",
         <<UNION { Call("BloomBitsOf", <<keys[k], hashCount, byteSize * 8>>) :
                     k \in 1..Len(keys) },
           byteSize>>)

\* The chunk blocks one after the other: [bytes, entries]
RECURSIVE WriteBloomChunks(_, _, _, _, _, _, _)
WriteBloomChunks(keys, keysPerChunk, byteSize, hashCount, o, bytes, entries) ==
    IF keys = <<>> THEN [bytes |-> bytes, entries |-> entries]
    ELSE LET n     == Min(keysPerChunk, Len(keys))
             group == SubSeq(keys, 1, n)
             prev  == IF entries = <<>> THEN -1 ELSE entries[Len(entries)].BlockOffset
             b     == Call("EncodeBlock", <<magicBloomChunk,
                                            Call("BloomChunkData",
                                                 <<group, byteSize, hashCount>>),
                                            o.codec, o.checksumType, o.bytesPerChecksum,
                                            prev>>)
         IN  WriteBloomChunks(SubSeq(keys, n + 1, Len(keys)), keysPerChunk, byteSize,
                              hashCount, o, bytes \o b,
                              Append(entries, IndexEntry(Len(bytes), Len(b), group[1])))

\* The payload of the GENERAL_BLOOM_META block: version 3, total byte size,
\* hash count, hash type (1: MurmurHash), key count, max keys, number of
\* chunks, an empty comparator name, the chunk index in root-index format
BloomMeta(entries, keyCount, keysPerChunk, byteSize, hashCount) ==
    BE32(3) \o BE64(byteSize * Len(entries)) \o BE32(hashCount) \o BE32(1)
    \o BE64(keyCount) \o BE64(keysPerChunk * Len(entries)) \o BE32(Len(entries))
    \o writeVInt(0) \o Call("EncodeRootIndex", <<entries>>)

\* The meta block after the chunk blocks w: [bytes, metaOffset]
WriteBloomMeta(w, keyCount, keysPerChunk, byteSize, hashCount, o) ==
    [bytes |-> w.bytes
               \o Call("EncodeBlock",
                       <<magicGeneralBloomMeta,
                         Call("BloomMeta", <<w.entries, keyCount, keysPerChunk, byteSize,
                                             hashCount>>),
                         o.codec, o.checksumType, o.bytesPerChecksum,
                         IF w.entries = <<>> THEN -1
                         ELSE w.entries[Len(w.entries)].BlockOffset>>),
     metaOffset |-> Len(w.bytes)]

\* A file of bloom chunks and their meta block: [bytes, metaOffset]
WriteBloom(keys, keysPerChunk, byteSize, hashCount, o) ==
    WriteBloomMeta(WriteBloomChunks(keys, keysPerChunk, byteSize, hashCount, o, <<>>, <<>>),
                   Len(keys), keysPerChunk, byteSize, hashCount, o)

-----------------------------------------------------------------------------
\* Call(op, a): the operator named op applied to the arguments a
Call(op, a) ==
    CASE op = "readVInt" -> readVInt(a[1], a[2])
      [] op = "readByteArray" -> readByteArray(a[1], a[2])
      [] op = "parseCell" -> parseCell(a[1], a[2], a[3])
      [] op = "CellIteratorNext" -> CellIteratorNext(a[1])
      [] op = "parseBlockHeader" -> parseBlockHeader(a[1])
      [] op = "crc32Checksum" -> crc32Checksum(a[1], a[2])
      [] op = "verifyChecksums" -> verifyChecksums(a[1], a[2], a[3], a[4], a[5])
      [] op = "snappyDecode" -> snappyDecode(a[1])
      [] op = "hadoopBlockDecompress" -> hadoopBlockDecompress(a[1], a[2])
      [] op = "Decompress" -> Decompress(a[1], a[2], a[3])
      [] op = "ReadBlock" -> ReadBlock(a[1], a[2], a[3])
      [] op = "parseRootIndex" -> parseRootIndex(a[1], a[2])
      [] op = "parseNonRootIndex" -> parseNonRootIndex(a[1])
      [] op = "ReadRootIndex" -> ReadRootIndex(a[1], a[2], a[3], a[4], a[5])
      [] op = "ReadNonRootIndex" -> ReadNonRootIndex(a[1], a[2], a[3])
      [] op = "nextDataBlock" -> nextDataBlock(a[1], a[2], a[3], a[4])
      [] op = "ScannerNextCall" -> ScannerNextCall(a[1], a[2], a[3])
      [] op = "Open" -> Open(a[1], a[2], a[3], a[4])
      [] op = "EncodeCell" -> EncodeCell(a[1], a[2], a[3])
      [] op = "EncodeCells" -> EncodeCells(a[1], a[2], a[3])
      [] op = "Compress" -> Compress(a[1], a[2])
      [] op = "ChecksumsOf" -> ChecksumsOf(a[1], a[2], a[3], a[4])
      [] op = "EncodeBlock" -> EncodeBlock(a[1], a[2], a[3], a[4], a[5], a[6])
      [] op = "EncodeRootIndex" -> EncodeRootIndex(a[1])
      [] op = "EncodeNonRootIndex" -> EncodeNonRootIndex(a[1])
      [] op = "WriteFile" -> WriteFile(a[1], a[2], a[3], a[4])
      [] op = "ScannerSeekCall" -> ScannerSeekCall(a[1], a[2], a[3], a[4])
      [] op = "WordAdd" -> WordAdd(a[1], a[2])
      [] op = "WordMul" -> WordMul(a[1], a[2])
      [] op = "WordXor" -> WordXor(a[1], a[2])
      [] op = "WordShr" -> WordShr(a[1], a[2])
      [] op = "murmurTail" -> murmurTail(a[1], a[2], a[3], a[4])
      [] op = "murmurFinal" -> murmurFinal(a[1])
      [] op = "murmurHash" -> murmurHash(a[1], a[2])
      [] op = "hashLoc" -> hashLoc(a[1], a[2])
      [] op = "containsInChunk" -> containsInChunk(a[1], a[2], a[3])
      [] op = "findChunk" -> findChunk(a[1], a[2])
      [] op = "BloomBitsOf" -> BloomBitsOf(a[1], a[2], a[3])
      [] op = "BloomBytes" -> BloomBytes(a[1], a[2])
      [] op = "BloomChunkData" -> BloomChunkData(a[1], a[2], a[3])
      [] op = "BloomMeta" -> BloomMeta(a[1], a[2], a[3], a[4], a[5])
      [] op = "WriteBloom" -> WriteBloom(a[1], a[2], a[3], a[4], a[5])
      [] op = "ReadBloomFilter" -> ReadBloomFilter(a[1], a[2], a[3])
      [] op = "MayContain" -> MayContain(a[1], a[2], a[3])
      [] op = "readCompressedInt" -> readCompressedInt(a[1], a[2])
      [] op = "fdLengths" -> fdLengths(a[1], a[2], a[3])
      [] op = "fdKey" -> fdKey(a[1], a[2], a[3])
      [] op = "fdTimestampType" -> fdTimestampType(a[1], a[2], a[3])
      [] op = "fdTagsMemstoreTS" -> fdTagsMemstoreTS(a[1], a[2], a[3])
      [] op = "fdValueOut" -> fdValueOut(a[1], a[2], a[3], a[4])
      [] op = "fastDiffDecode" -> fastDiffDecode(a[1], a[2])
      [] op = "fdEncodeFirst" -> fdEncodeFirst(a[1], a[2], a[3])
      [] op = "fdEncodeNext" -> fdEncodeNext(a[1], a[2], a[3], a[4], a[5])
      [] op = "fdEncode" -> fdEncode(a[1], a[2], a[3], a[4])

-----------------------------------------------------------------------------
(* Files to scan: up to ScanCells cells of a small universe, cut into data *)
(* blocks, written under a few option sets and opened.                     *)

ScanCells == 3      \* cells in a file of SpecScan
ScanTs == 2         \* timestamps are 1..ScanTs in the file specifications
MaxCalls == 5       \* Next calls on one hfile.Scanner

HRows == {<<1>>, <<3>>}

HCellSet ==
    { HCell(r, <<1>>, q, ts, CellTypePut, <<ts + 10>>, <<>>) :
        r \in HRows, q \in Qualifiers, ts \in 1..ScanTs }

\* The cells a file may store, in increasing CompareCell order: qualifier 1
\* in every version, qualifier 2 in version 1
HUniverse ==
    SortedUniverse({ c \in HCellSet : c.Qualifier = <<1>> \/ c.Timestamp = 1 })

\* With tags in the file, the cells of qualifier 2 carry one
WithTags(c, includeTags) ==
    IF includeTags /\ c.Qualifier = <<2>> THEN [c EXCEPT !.Tags = <<9>>] ELSE c

\* Strictly increasing choices of k cells of a universe of size n
Choices(k, n) == { m \in [1..k -> 1..n] : \A i \in 1..(k - 1) : m[i] < m[i + 1] }

\* cut[i] says that a new data block starts after cell i
Cuts(k) == [1..(k - 1) -> BOOLEAN]

\* The cells of block number b (from 0), b being the cuts before the cell
BlockOf(cells, cut, b) ==
    LET idx == { i \in 1..Len(cells) :
                   Cardinality({ j \in 1..(i - 1) : cut[j] }) = b }
    IN  [j \in 1..Cardinality(idx) |->
            cells[CHOOSE i \in idx : Cardinality({ x \in idx : x < i }) = j - 1]]

BlocksOf(cells, cut) ==
    IF cells = <<>> THEN <<>>
    ELSE [b \in 1..(Cardinality({ j \in 1..(Len(cells) - 1) : cut[j] }) + 1) |->
            BlockOf(cells, cut, b - 1)]

\* The file of the blocks of cells: [bytes, trailer]
WriteCells(blocks, entryCount, o) ==
    Call("WriteFile", <<[b \in 1..Len(blocks) |->
                  Call("EncodeCells", <<blocks[b], o.includeTags,
                              [i \in 1..Len(blocks[b]) |-> o.memstoreTS]>>)],
              [b \in 1..Len(blocks) |-> EncodeKey(blocks[b][1])],
              entryCount, o>>)

ScanOptionSet ==
    { FileOptions("NONE", checksumCRC32, 16, FALSE, 1, 0),
      FileOptions("GZ", checksumCRC32C, 64, TRUE, 2, 200),
      FileOptions("SNAPPY", checksumNull, 16, FALSE, 2, 0),
      FileOptions("ZSTD", checksumCRC32, 64, TRUE, 1, 0) }

\* The region scanner is not running
RIdle ==
    /\ files = <<>>
    /\ failAt = <<>>
    /\ opts = Options(0, NoEndKey)
    /\ pc = "file"
    /\ scan = <<>>
    /\ kv = [h |-> <<>>, cur |-> 0, errVal |-> 0]
    /\ deletes = newDeleteTracker
    /\ currentRow = <<>>
    /\ versionCounts = EmptyMap
    /\ cell = NoCell
    /\ err = 0
    /\ ret = "none"
    /\ trace = <<>>

NoLog == [out |-> <<>>, reads |-> 0, ret |-> "none", calls |-> 0, seeks |-> 0,
          key |-> <<>>, errAt |-> 0]

\* The file bytes opened under the trailer, with a new scanner; Open may fail
InitOpened(bytes, trailer, stored, includeTags) ==
    \E x \in {Call("Open", <<bytes, trailer, includeTags, EncodingNone>>)} :
        /\ disk = [bytes |-> bytes, stored |-> stored]
        /\ rd = IF x.st = "ok" THEN x.rd
                ELSE [decomp |-> "", trailer |-> trailer,
                      dataIndex |-> [Entries |-> <<>>, NumDataIndexLevels |-> 0],
                      includeTags |-> includeTags, encodingID |-> EncodingNone]
        /\ hs = NewScanner
        /\ hlog = [NoLog EXCEPT !.ret = IF x.st = "ok" THEN "none"
                                        ELSE IF x.st = "panic" THEN "panic"
                                        ELSE "open error"]
        /\ blk = <<>>
        /\ bf = <<>>

\* A file written from blocks under options o, opened, with a new scanner
InitFile(blocks, stored, o) ==
    \E w \in {WriteCells(blocks, Len(stored), o)} :
        InitOpened(w.bytes, w.trailer, stored, o.includeTags)

InitScan ==
    /\ RIdle
    /\ \E o \in ScanOptionSet : \E k \in 0..ScanCells :
       \E m \in Choices(k, Len(HUniverse)) : \E cut \in Cuts(k) :
          LET stored == [i \in 1..k |-> WithTags(HUniverse[m[i]], o.includeTags)]
          IN  InitFile(BlocksOf(stored, cut), stored, o)

\* Scanner.Next returned true: the scanner stands on a cell
HNextCell ==
    /\ pc = "file" /\ hlog.ret \notin {"panic", "open error"} /\ hlog.calls < MaxCalls
    /\ \E r \in {Call("ScannerNextCall", <<rd, disk.bytes, hs>>)} :
           /\ ~r.panic /\ r.ret
           /\ hs' = r.s
           /\ hlog' = [hlog EXCEPT !.out = Append(@, r.s.cell), !.reads = @ + r.reads,
                                   !.ret = "true", !.calls = @ + 1]
    /\ UNCHANGED <<disk, rd, blk, bf>>
    /\ UNCHANGED rvars

\* Scanner.Next returned false, at the end of the file or with an error set,
\* or it panicked
HNextStop ==
    /\ pc = "file" /\ hlog.ret \notin {"panic", "open error"} /\ hlog.calls < MaxCalls
    /\ \E r \in {Call("ScannerNextCall", <<rd, disk.bytes, hs>>)} :
           /\ r.panic \/ ~r.ret
           /\ hs' = r.s
           /\ hlog' = [hlog EXCEPT !.reads = @ + r.reads,
                                   !.ret = IF r.panic THEN "panic" ELSE "false",
                                   !.calls = @ + 1,
                                   !.errAt = IF @ = 0 /\ (r.panic \/ r.s.err # "")
                                             THEN hlog.calls + 1 ELSE @]
    /\ UNCHANGED <<disk, rd, blk, bf>>
    /\ UNCHANGED rvars

NextScan == HNextCell \/ HNextStop

SpecScan == InitScan /\ [][NextScan]_vars

-----------------------------------------------------------------------------
(* C16: a full scan of a valid file.                                       *)

\* C16: scanning a valid file with Next yields the stored cells, each once
\* and in stored order; when Next returns false all of them were yielded,
\* Err() is nil, their number is the trailer's EntryCount and the output is
\* non-decreasing in cell order.
C16_FullScanYieldsStoredCells ==
    /\ hlog.ret # "panic"
    /\ Len(hlog.out) <= Len(disk.stored)
    /\ hlog.out = SubSeq(disk.stored, 1, Len(hlog.out))
    /\ hlog.ret = "true" => hs.cell = hlog.out[Len(hlog.out)]
    /\ hlog.ret = "false" =>
          /\ hlog.out = disk.stored
          /\ hs.err = ""
          /\ Len(hlog.out) = rd.trailer.EntryCount
          /\ IsSorted(hlog.out)

\* a scan of three cells in three data blocks under a two-level index, with
\* tags, has ended
C16_Witness ==
    /\ hlog.ret = "false"
    /\ Len(hlog.out) = ScanCells
    /\ rd.dataIndex.NumDataIndexLevels = 2
    /\ Len(rd.dataIndex.Entries) = 2
    /\ rd.includeTags
    /\ hlog.reads = 5

-----------------------------------------------------------------------------
(* Damaged files: a valid file in which one byte was replaced.             *)

FuzzCells == 3      \* cells in a file of SpecFuzz

FuzzOptionSet ==
    { FileOptions("NONE", checksumCRC32, 16, FALSE, 1, 0),
      FileOptions("SNAPPY", checksumNull, 16, FALSE, 2, 0) }

\* The two values a byte is replaced by
FuzzValues(b) == {0, (b + 1) % 256}

InitFuzz ==
    /\ RIdle
    /\ \E o \in FuzzOptionSet : \E cut \in Cuts(FuzzCells) :
       \E stored \in {SubSeq(HUniverse, 1, FuzzCells)} :
       \E w \in {WriteCells(BlocksOf(stored, cut), FuzzCells, o)} :
       \E p \in 1..Len(w.bytes) : \E v \in FuzzValues(w.bytes[p]) :
          InitOpened([w.bytes EXCEPT ![p] = v], w.trailer, stored, o.includeTags)

SpecFuzz == InitFuzz /\ [][NextScan]_vars

-----------------------------------------------------------------------------
(* C12: an hfile.Scanner with an error is terminal.                        *)

\* C12: once an hfile.Scanner has recorded an error, every later Next
\* returns false, reads no block, and leaves Err() as it was.
C12_ErrorIsTerminal ==
    [][hs.err # "" =>
          /\ hlog'.ret = "false"
          /\ hlog'.reads = hlog.reads
          /\ hs'.err = hs.err
          /\ hlog'.out = hlog.out]_vars

\* the first data block of three failed to be read, and Next was called
\* twice more
C12_Witness ==
    /\ hs.err = "read data block"
    /\ hlog.errAt = 1
    /\ hlog.calls = 3
    /\ hlog.reads = 1
    /\ Len(rd.dataIndex.Entries) = 3

-----------------------------------------------------------------------------
(* C18: no panic on any input.                                             *)

\* C18: Open followed by a scan either succeeds or returns an error; no
\* run-time panic happens, whatever the bytes of the file are.
C18_NoPanicOnAnyInput == hlog.ret # "panic"

-----------------------------------------------------------------------------
(* Single blocks: a data block is written, possibly damaged in one byte of *)
(* its header or payload, and read with ReadBlock.  blk is [bytes, codec,  *)
(* checksumType, dataSize, pos, res]: pos is the offset of the damaged     *)
(* byte, -1 for none, and res the outcome of ReadBlock, st = "none" before *)
(* the read.                                                               *)

BlockCells == 2     \* a block of SpecBlock holds 1..BlockCells cells

BlockCodecs == {"NONE", "GZ", "SNAPPY", "ZSTD"}

BlockChecksumTypes == {checksumNull, checksumCRC32, checksumCRC32C}

BlockBytesPerChecksum == {16, 64}

InitBlock ==
    /\ RIdle
    /\ disk = <<>> /\ rd = <<>> /\ hs = <<>> /\ hlog = <<>> /\ bf = <<>>
    /\ \E n \in 1..BlockCells : \E codec \in BlockCodecs :
       \E ct \in BlockChecksumTypes : \E bpc \in BlockBytesPerChecksum :
       \E payload \in {Call("EncodeCells", <<SubSeq(HUniverse, 1, n), FALSE,
                                               SubSeq(<<0, 0, 0, 0>>, 1, n)>>)} :
       \E b \in {Call("EncodeBlock", <<magicData, payload, codec, ct, bpc, -1>>)} :
          blk = [bytes |-> b, codec |-> codec, checksumType |-> ct,
                 dataSize |-> Int32(b, 8 + 4 + 4 + 8 + 1 + 4) - blockHeaderSize,
                 pos |-> -1, res |-> [st |-> "none"]]

\* one byte of the header or of the payload is replaced
BlockDamage ==
    /\ blk # <<>> /\ blk.pos = -1 /\ blk.res.st = "none"
    /\ \E p \in 0..(blockHeaderSize + blk.dataSize - 1) :
       \E v \in FuzzValues(At(blk.bytes, p)) \ {At(blk.bytes, p)} :
          blk' = [blk EXCEPT !.bytes[p + 1] = v, !.pos = p]
    /\ UNCHANGED <<disk, rd, hs, hlog, bf>>
    /\ UNCHANGED rvars

\* ReadBlock(r, 0, decomp)
BlockRead ==
    /\ blk # <<>> /\ blk.res.st = "none"
    /\ \E b \in {Call("ReadBlock", <<blk.bytes, 0, blk.codec>>)} :
          blk' = [blk EXCEPT !.res = b]
    /\ UNCHANGED <<disk, rd, hs, hlog, bf>>
    /\ UNCHANGED rvars

NextBlock == BlockDamage \/ BlockRead

SpecBlock == InitBlock /\ [][NextBlock]_vars

-----------------------------------------------------------------------------
(* C17: one damaged byte in a checksummed block.                           *)

\* C17: a block written with a non-null checksum type in which one byte of
\* the header or of the payload was changed is never returned successfully
\* by ReadBlock (the claim adds that the error is a checksum mismatch).
C17_DamagedBlockNeverReturned ==
    (blk.checksumType # checksumNull /\ blk.pos >= 0) => blk.res.st # "ok"

-----------------------------------------------------------------------------
(* C19: the length of the data of a block.                                 *)

\* C19: for every block ReadBlock returns successfully, the length of
\* Block.Data is the UncompressedSize of its header, under every codec.
C19_DataLenIsUncompressedSize ==
    blk.res.st = "ok" => Len(blk.res.Data) = blk.res.Header.UncompressedSize

-----------------------------------------------------------------------------
(* Seeking: files over rows of one and of two bytes, with two versions of  *)
(* one column; targets are full keys and prefixes of rows in and around    *)
(* the file.                                                               *)

SeekCells == 3      \* cells in a file of SpecSeek
MaxSeeks == 1       \* Seek calls on one hfile.Scanner
SeekAfter == 1      \* Seek comes after at most this many Next calls

SeekCellSet ==
    { HCell(<<1>>, <<1>>, <<1>>, ts, CellTypePut, <<ts + 10>>, <<>>) : ts \in 1..ScanTs }
    \cup { HCell(<<1>>, <<1>>, <<2>>, 1, CellTypePut, <<11>>, <<>>),
           HCell(<<2, 0>>, <<1>>, <<1>>, 1, CellTypePut, <<11>>, <<>>),
           HCell(<<3>>, <<1>>, <<1>>, 1, CellTypePut, <<11>>, <<>>) }

SeekUniverse == SortedUniverse(SeekCellSet)

SeekTargetRows == {<<0>>, <<1>>, <<2>>, <<2, 0>>, <<3>>, <<4>>}

\* A target: a row, a row with family and qualifier, or a full key
SeekTargets ==
    [kind : {"row"}, row : SeekTargetRows, qual : {<<>>}, ts : {0}]
    \cup [kind : {"rfq"}, row : SeekTargetRows, qual : Qualifiers, ts : {0}]
    \cup [kind : {"full"}, row : SeekTargetRows, qual : Qualifiers, ts : 1..ScanTs]

SeekKey(t) ==
    CASE t.kind = "row"  -> makeRowKey(t.row)
      [] t.kind = "rfq"  -> makeRowFamilyQualifierKey(t.row, <<1>>, t.qual)
      [] t.kind = "full" -> makeCellKey(t.row, <<1>>, t.qual, t.ts, CellTypePut)

InitSeek ==
    /\ RIdle
    /\ \E o \in FuzzOptionSet : \E k \in 0..SeekCells :
       \E m \in Choices(k, Len(SeekUniverse)) : \E cut \in Cuts(k) :
          LET stored == [i \in 1..k |-> SeekUniverse[m[i]]]
          IN  InitFile(BlocksOf(stored, cut), stored, o)

\* Scanner.Seek(key); the cells yielded are counted from the seek on
HSeek ==
    /\ pc = "file" /\ hlog.ret \notin {"panic", "open error"}
    /\ hlog.seeks < MaxSeeks /\ hlog.calls <= SeekAfter
    /\ \E t \in SeekTargets :
       \E r \in {Call("ScannerSeekCall", <<rd, disk.bytes, hs, SeekKey(t)>>)} :
           /\ hs' = r.s
           /\ hlog' = [hlog EXCEPT !.out = IF r.ret THEN <<r.s.cell>> ELSE <<>>,
                                   !.reads = @ + r.reads,
                                   !.ret = IF r.panic THEN "panic"
                                           ELSE IF r.ret THEN "true" ELSE "false",
                                   !.calls = 0, !.seeks = @ + 1, !.key = t]
    /\ UNCHANGED <<disk, rd, blk, bf>>
    /\ UNCHANGED rvars

NextSeek == HSeek \/ HNextCell \/ HNextStop

SpecSeek == InitSeek /\ [][NextSeek]_vars

\* The cell is at or after the target: as byte strings of keys, and in the
\* order of the cells of a file (CompareCell; a prefix before what it begins)
KeyGEBytes(c, t) == BytesCompare(EncodeKey(c), SeekKey(t)) >= 0

KeyGECells(c, t) ==
    LET r == BytesCompare(c.Row, t.row)
        f == BytesCompare(c.Family, <<1>>)
        q == BytesCompare(c.Qualifier, t.qual)
    IN  IF r # 0 THEN r > 0
        ELSE IF t.kind = "row" THEN TRUE
        ELSE IF f # 0 THEN f > 0
        ELSE IF q # 0 THEN q > 0
        ELSE IF t.kind = "rfq" THEN TRUE
        ELSE CompareCell(c, Cell(t.row, <<1>>, t.qual, t.ts, CellTypePut)) >= 0

\* Seek has just returned
SeekReturned == hlog.seeks > 0 /\ hlog.calls = 0

\* What Seek returned is right for the order GE
SeekRight(GE(_, _)) ==
    IF hlog.ret = "true"
    THEN \E i \in 1..Len(disk.stored) :
            /\ disk.stored[i] = hs.cell
            /\ GE(disk.stored[i], hlog.key)
            /\ \A j \in 1..(i - 1) : ~GE(disk.stored[j], hlog.key)
    ELSE /\ hlog.ret = "false"
         /\ hs.err = ""
         /\ \A j \in 1..Len(disk.stored) : ~GE(disk.stored[j], hlog.key)

-----------------------------------------------------------------------------
(* C13: Seek finds the first cell at or after the key.                     *)

\* C13: Seek(key) returns true standing on the first cell of the file whose
\* key is >= key, and false with Err() nil iff key is greater than every
\* key of the file, whether keys are ordered as byte strings or as cells.
C13_SeekFirstCellAtOrAfter ==
    SeekReturned => (SeekRight(KeyGEBytes) \/ SeekRight(KeyGECells))

-----------------------------------------------------------------------------
(* C14: Next after Seek.                                                   *)

\* C14: after a successful Seek the Next calls yield the cells that follow
\* the seek position in file order, none skipped or repeated, and return
\* false after the last cell of the file with no error.
C14_NextContinuesAfterSeek ==
    (hlog.seeks > 0 /\ hlog.out # <<>>) =>
        /\ hlog.ret # "panic"
        /\ \E i \in 1..Len(disk.stored) :
              /\ disk.stored[i] = hlog.out[1]
              /\ i + Len(hlog.out) - 1 <= Len(disk.stored)
              /\ hlog.out = SubSeq(disk.stored, i, i + Len(hlog.out) - 1)
              /\ hlog.ret = "false" =>
                    (i + Len(hlog.out) - 1 = Len(disk.stored) /\ hs.err = "")

\* a seek into the first of three data blocks under a two-level index,
\* followed by Next up to the end of the file
C14_Witness ==
    /\ hlog.seeks > 0
    /\ hlog.ret = "false"
    /\ hlog.out = disk.stored
    /\ Len(hlog.out) = SeekCells
    /\ rd.dataIndex.NumDataIndexLevels = 2
    /\ Len(rd.dataIndex.Entries) = 2

-----------------------------------------------------------------------------
(* C15: Seek with a prefix key.                                            *)

\* C15: Seek with the prefix of a row R (alone or with family and
\* qualifier) stands on the first cell of row R (of the column) when the
\* file has it, on the first cell after it otherwise, and returns false
\* when the prefix sorts after all cells.
C15_SeekPrefixKey ==
    (SeekReturned /\ hlog.key.kind \in {"row", "rfq"}) => SeekRight(KeyGECells)

-----------------------------------------------------------------------------
(* Bloom filters: a filter is written over some of the keys of a small     *)
(* universe and read back with ReadBloomFilter; MayContain is then asked   *)
(* about keys in and out of the filter.  bf is [f, bytes, keys, key, ret,  *)
(* chunk, calls]: f the outcome of ReadBloomFilter, keys the keys          *)
(* inserted, key, ret and chunk the last question, its answer ("none"      *)
(* before the first) and the chunk it read, calls the number of questions. *)

MaxBloomKeys == 5       \* keys of BloomUniverse a filter may hold
MaxKeysPerChunk == 2    \* a chunk holds 1..MaxKeysPerChunk keys
MaxBloomCalls == 2      \* MayContain calls on one filter

\* Row keys in increasing byte order: with and without a tail after the
\* 4-byte blocks of the hash, and with a byte above 127
BloomUniverse == << <<1>>, <<1, 0>>, <<1, 0, 0, 0>>, <<2, 5, 7, 9, 11>>, <<200, 3, 7>> >>

\* The keys asked about: those of the universe and one before them all
BloomQueries == {BloomUniverse[i] : i \in 1..Len(BloomUniverse)} \cup {<<0>>}

\* bytes of a chunk
BloomByteSizes == {1, 4}

\* hash functions of a filter
BloomHashCounts == {1, 3}

\* The keys of BloomUniverse at the indexes S, from index i on, in order
RECURSIVE BloomKeysAt(_, _)
BloomKeysAt(S, i) ==
    IF i > Len(BloomUniverse) THEN <<>>
    ELSE (IF i \in S THEN <<BloomUniverse[i]>> ELSE <<>>) \o BloomKeysAt(S, i + 1)

InitBloom ==
    /\ RIdle
    /\ disk = <<>> /\ rd = <<>> /\ hs = <<>> /\ hlog = <<>> /\ blk = <<>>
    /\ \E S \in SUBSET (1..MaxBloomKeys) : \E keysPerChunk \in 1..MaxKeysPerChunk :
       \E byteSize \in BloomByteSizes : \E hashCount \in BloomHashCounts :
       \E o \in FuzzOptionSet :
       \E w \in {Call("WriteBloom", <<BloomKeysAt(S, 1), keysPerChunk, byteSize,
                                      hashCount, o>>)} :
       \E x \in {Call("ReadBloomFilter", <<w.bytes, w.metaOffset, o.codec>>)} :
          bf = [f |-> x, bytes |-> w.bytes, keys |-> BloomKeysAt(S, 1), key |-> <<>>,
                ret |-> "none", chunk |-> -1, calls |-> 0]

\* bf.MayContain(key)
BloomQuery ==
    /\ bf # <<>> /\ bf.f.st = "ok" /\ bf.calls < MaxBloomCalls
    /\ \E key \in BloomQueries :
       \E r \in {Call("MayContain", <<bf.f.f, bf.bytes, key>>)} :
          bf' = [bf EXCEPT !.key = key, !.chunk = r.chunk, !.calls = @ + 1,
                           !.ret = IF r.err # "" THEN r.err
                                   ELSE IF r.ret THEN "true" ELSE "false"]
    /\ UNCHANGED <<disk, rd, hs, hlog, blk>>
    /\ UNCHANGED rvars

NextBloom == BloomQuery

SpecBloom == InitBloom /\ [][NextBloom]_vars

\* the key was inserted when the filter was written
BloomInserted(key) == \E k \in 1..Len(bf.keys) : bf.keys[k] = key

-----------------------------------------------------------------------------
(* C20: no false negatives.                                                *)

\* C20: MayContain answers true for every key that was inserted when the
\* filter was written, whichever chunk the key falls in, and so answers
\* false only for keys that were not inserted.
C20_NoFalseNegative ==
    /\ (bf.calls > 0 /\ BloomInserted(bf.key)) => bf.ret = "true"
    /\ bf.ret = "false" => ~BloomInserted(bf.key)

\* An inserted key with a byte above 127 is found in the third chunk of a
\* filter of three hash functions.
C20_Witness ==
    /\ bf.calls > 0 /\ BloomInserted(bf.key) /\ bf.key = <<200, 3, 7>>
    /\ bf.f.f.NumChunks = 3 /\ bf.chunk = 2 /\ bf.f.f.HashCount = 3
    /\ bf.ret = "true"

\* A key that was not inserted is answered false by a chunk holding other keys.
C20_WitnessAbsent ==
    /\ bf.calls > 0 /\ ~BloomInserted(bf.key) /\ bf.chunk >= 0 /\ bf.ret = "false"

-----------------------------------------------------------------------------
(* C22: the end key.                                                       *)

\* The row of c is at or after the end key of the scan.
AtOrAfterEndKey(c) == BytesCompare(c.Row, opts.EndKey) >= 0

\* C22: with a non-empty EndKey no cell with Row >= EndKey is emitted; the
\* first such cell the merged stream reaches makes Next return false; and
\* by then every Put with Row < EndKey that no tombstone of the inputs
\* suppresses has been emitted (MaxVersions = 0).
C22_EndKeyExclusive ==
    opts.EndKey # NoEndKey =>
        /\ ret = "true" => ~AtOrAfterEndKey(cell)
        /\ \A i \in TraceIdx :
              /\ EmittedAt(i) => ~AtOrAfterEndKey(trace[i].cell)
              /\ AtOrAfterEndKey(trace[i].cell) => trace[i].what = "end"
              /\ (i = Len(trace) /\ AtOrAfterEndKey(trace[i].cell)) => ret = "false"
        /\ ( opts.MaxVersions = 0 /\ \E i \in TraceIdx : trace[i].what = "end" ) =>
              \A f \in DOMAIN files : \A p \in 1..Len(files[f]) :
                  ( /\ files[f][p].Type = CellTypePut
                    /\ ~AtOrAfterEndKey(files[f][p])
                    /\ ~SuppressedInInputs(files[f][p]) )
                      => TimesEmitted(f, p) = 1

\* Next has returned false at the first cell after an end key that lies
\* between the rows, after a Put before the end key was emitted, with a
\* cell left in the heap.
C22_Witness ==
    /\ opts.EndKey = <<1, 0>> /\ ret = "false" /\ kv.cur # 0
    /\ Len(trace) = 2
    /\ EmittedAt(1) /\ trace[1].cell.Row = <<1>>
    /\ trace[2].what = "end" /\ trace[2].cell.Row = <<2>>

-----------------------------------------------------------------------------
(* Scans with a start key, over rows of one and of two bytes.              *)

StartFiles == 2     \* input scanners in SpecStart
StartCells == 3     \* cells in all files together in SpecStart

StartRows == {<<1>>, <<1, 5>>, <<2>>}

StartUniverse ==
    SortedUniverse(CellsOver(StartRows, {<<1>>}, 0, {CellTypePut, CellTypeDelete}))

\* Start keys: each row of the files, and a key before them all; one scan
\* has an end key too
StartOptionSet ==
    { OptionsFrom(mv, k, NoEndKey) : mv \in 0..1, k \in StartRows \cup {<<0>>} }
        \cup { OptionsFrom(0, <<1>>, <<2>>) }

InitStart == InitWith(StartUniverse, StartFiles, StartCells, StartOptionSet)

SpecStart == InitStart /\ [][Next]_vars

\* C23: with a non-empty StartKey no cell with Row < StartKey is emitted,
\* and when the scan is over every Put with Row >= StartKey that no
\* tombstone of the inputs suppresses has been emitted (MaxVersions = 0, no
\* end key), for rows shorter and longer than StartKey.
C23_StartKeyInclusive ==
    Len(opts.StartKey) > 0 =>
        /\ \A i \in TraceIdx :
              EmittedAt(i) => BytesCompare(trace[i].cell.Row, opts.StartKey) >= 0
        /\ ( opts.MaxVersions = 0 /\ opts.EndKey = NoEndKey /\ Exhausted ) =>
              \A f \in DOMAIN files : \A p \in 1..Len(files[f]) :
                  ( /\ files[f][p].Type = CellTypePut
                    /\ BytesCompare(files[f][p].Row, opts.StartKey) >= 0
                    /\ ~SuppressedInInputs(files[f][p]) )
                      => TimesEmitted(f, p) = 1

-----------------------------------------------------------------------------
(* Index trees: an index of 1..TreeLevels levels whose blocks hold         *)
(* 0..TreeFanout entries each, empty blocks included, is written, and      *)
(* nextDataBlock is called on the stack Scanner.Next sets up, also after   *)
(* it has reported done.  The data blocks are numbered from 1, left to     *)
(* right; entry n has the key <<n>>.  disk is [bytes, stored, blocks]:     *)
(* stored the keys of the data-block entries in that order, blocks the     *)
(* number of index blocks below the root.                                  *)

TreeLevels == 3     \* index levels of a tree of SpecTree
TreeFanout == 2     \* entries in an index block of SpecTree
MaxTreeCalls == 10  \* nextDataBlock calls on one Scanner

\* The shape of an index of the given number of levels: the number of
\* entries of a block whose entries point to data blocks, and the shapes of
\* the children of any other block.
RECURSIVE TreeShapes(_)
TreeShapes(levels) ==
    IF levels <= 1 THEN 0..TreeFanout
    ELSE UNION { [1..k -> TreeShapes(levels - 1)] : k \in 0..TreeFanout }

\* The entries of the block of a shape, its descendants being written after
\* acc.bytes: [bytes, next, blocks, entries], next the number of data blocks
\* so far
RECURSIVE TreeEntries(_, _, _, _)
RECURSIVE TreeChildren(_, _, _, _, _)
TreeChildren(shapes, i, levels, o, acc) ==
    IF i > Len(shapes) THEN acc
    ELSE LET c == TreeEntries(shapes[i], levels - 1, o, acc)
             b == Call("EncodeBlock",
                       <<IF levels = 2 THEN magicLeafIndex ELSE magicIntermediateIndex,
                         Call("EncodeNonRootIndex", <<c.entries>>),
                         o.codec, o.checksumType, o.bytesPerChecksum, -1>>)
         IN  TreeChildren(shapes, i + 1, levels, o,
                 [bytes |-> c.bytes \o b, next |-> c.next, blocks |-> c.blocks + 1,
                  entries |-> Append(acc.entries,
                                  IndexEntry(Len(c.bytes), Len(b),
                                             IF c.entries = <<>> THEN <<>>
                                             ELSE c.entries[1].Key))])

TreeEntries(shape, levels, o, acc) ==
    IF levels <= 1
    THEN [acc EXCEPT !.next = @ + shape,
                     !.entries = SubSeq([i \in 1..shape |->
                                            IndexEntry(acc.next + i, 0, <<acc.next + i>>)],
                                        1, shape)]
    ELSE TreeChildren(shape, 1, levels, o, [acc EXCEPT !.entries = <<>>])

InitTree ==
    /\ RIdle
    /\ blk = <<>> /\ bf = <<>>
    /\ \E levels \in 1..TreeLevels : \E shape \in TreeShapes(levels) :
       \E o \in FuzzOptionSet :
       \E t \in {TreeEntries(shape, levels, o,
                             [bytes |-> <<>>, next |-> 0, blocks |-> 0, entries |-> <<>>])} :
          /\ disk = [bytes |-> t.bytes, blocks |-> t.blocks,
                     stored |-> SubSeq([n \in 1..t.next |-> <<n>>], 1, t.next)]
          /\ rd = [decomp |-> o.codec, trailer |-> <<>>,
                   dataIndex |-> [Entries |-> t.entries, NumDataIndexLevels |-> levels],
                   includeTags |-> FALSE, encodingID |-> EncodingNone]
          /\ hs = [NewScanner EXCEPT !.stack = <<indexLevel(t.entries, -1)>>]
          /\ hlog = NoLog

\* s.nextDataBlock(): the key of the entry returned is logged; errAt is the
\* number of the first call that reported done
TreeNextDataBlock ==
    /\ hlog.calls < MaxTreeCalls
    /\ \E r \in {Call("nextDataBlock", <<rd, disk.bytes, hs.stack, 0>>)} :
          /\ hs' = [hs EXCEPT !.stack = r.stack, !.err = r.err]
          /\ hlog' = [hlog EXCEPT
                        !.out = IF r.ok THEN Append(@, r.entry.Key) ELSE @,
                        !.reads = @ + r.reads,
                        !.ret = IF r.panic THEN "panic" ELSE IF r.ok THEN "true" ELSE "false",
                        !.calls = @ + 1,
                        !.errAt = IF ~r.ok /\ @ = 0 THEN hlog.calls + 1 ELSE @]
    /\ UNCHANGED <<disk, rd, blk, bf>>
    /\ UNCHANGED rvars

NextTree == TreeNextDataBlock

SpecTree == InitTree /\ [][NextTree]_vars

\* C24: the entries nextDataBlock has returned are the first data-block
\* entries in left-to-right order, each once; an entry is returned from a
\* stack of one frame per level; done is reported only when all entries
\* were returned and the root frame is exhausted, with every index block
\* read once and no error, and every later call reports done too.
C24_DepthFirstEachOnce ==
    /\ Len(hlog.out) <= Len(disk.stored)
    /\ hlog.out = SubSeq(disk.stored, 1, Len(hlog.out))
    /\ hlog.reads <= disk.blocks
    /\ hlog.ret = "true" =>
          /\ hlog.errAt = 0
          /\ Len(hs.stack) = rd.dataIndex.NumDataIndexLevels
    /\ hlog.errAt > 0 =>
          /\ hlog.ret = "false"
          /\ hs.err = ""
          /\ hlog.out = disk.stored
          /\ hlog.reads = disk.blocks
          /\ Len(hs.stack) = 1
          /\ hs.stack[1].pos >= Len(hs.stack[1].entries)

\* A tree of three levels whose three leaf blocks hold two entries, so that
\* one leaf block is empty: both data blocks were returned, and done was
\* reported twice.
C24_Witness ==
    /\ rd.dataIndex.NumDataIndexLevels = 3
    /\ disk.blocks = 5
    /\ Len(disk.stored) = 2
    /\ hlog.out = disk.stored
    /\ hlog.errAt = 3 /\ hlog.calls = 4 /\ hlog.ret = "false"

-----------------------------------------------------------------------------
(* The end of a scan.  The three ways Next returns false: the heap is      *)
(* empty, a cell is at or past the end key, an input scanner failed.  The  *)
(* caller may call Next again after any of them.  The fairness of SpecStop *)
(* is that of a constructed scanner: the loop of Next runs on, and the     *)
(* caller calls Next until it returns false.                               *)

StopOptionSet == { Options(1, NoEndKey), Options(0, <<1>>), Options(0, <<2>>) }

\* As InitErr, with an end key at the first row and at the last.
InitStop ==
    /\ \E t \in 0..ErrCells : \E m \in Layouts(t, ErrFiles, Len(ErrUniverse)) :
          files = FilesOfLayout(m, ErrUniverse, ErrFiles)
    /\ failAt \in FailurePoints(files)
    /\ opts \in StopOptionSet
    /\ pc = "new"
    /\ scan = [f \in 1..ErrFiles |-> [pos |-> 0, err |-> FALSE]]
    /\ kv = [h |-> <<>>, cur |-> 0, errVal |-> 0]
    /\ deletes = newDeleteTracker
    /\ currentRow = <<>>
    /\ versionCounts = EmptyMap
    /\ cell = NoCell
    /\ err = 0
    /\ ret = "none"
    /\ trace = <<>>
    /\ HIdle

\* An iteration of the loop of a constructed scanner
NextIteration == pc = "ready" /\ Next

SpecStop == InitStop /\ [][Next]_vars /\ WF_vars(NextIteration)

RECURSIVE CellsInFiles(_)
CellsInFiles(n) == IF n = 0 THEN 0 ELSE Len(files[n]) + CellsInFiles(n - 1)

\* C30: a Next that returned false is followed only by a Next that returns
\* false at once and leaves Cell() as it was; the loop of Next dequeues no
\* more cells than the files hold, every Next returns, and a caller that
\* calls Next until it returns false comes to the end.
C30_StickyAndTerminates ==
    /\ [][ret = "false" => ret' = "false" /\ cell' = cell]_vars
    /\ [](Len(trace) <= CellsInFiles(Len(files)))
    /\ (ret = "continue") ~> (ret # "continue")
    /\ (pc = "ready") ~> (ret = "false")

\* Next returned false at a cell past the end key, with a cell returned
\* before it and a cell still in the heap; the scan that ended by a failed
\* input scanner and the one that ended by exhaustion are the two below.
C30_Witness ==
    /\ ret = "false"
    /\ cell # NoCell
    /\ kv.cur # 0
    /\ Len(trace) >= 2
    /\ trace[Len(trace)].what = "end"

C30_WitnessError ==
    /\ ret = "false" /\ err # 0 /\ cell # NoCell /\ kv.cur = 0

C30_WitnessExhausted ==
    /\ ret = "false" /\ err = 0 /\ cell # NoCell /\ kv.cur = 0 /\ kv.errVal = 0

-----------------------------------------------------------------------------
(* The merge heap.                                                         *)

\* Scanner f is positioned on a cell.
HasCurrentCell(f) == scan[f].pos \in 1..Len(files[f])

\* The number of times scanner f is in the heap
TimesInHeap(f) == Cardinality({i \in 1..Len(kv.h) : kv.h[i] = f})

\* C28: of a constructed scanner none of whose inputs failed, the current
\* entry's cell is not after the cell of any heap entry under
\* CompareCellWithOrder; a scanner positioned on a cell is the current entry
\* or is in the heap once, never both; an exhausted scanner is neither; and
\* the heap is empty when there is no current entry.
C28_MergeHeapInvariant ==
    (pc = "ready" /\ kv.errVal = 0) =>
        /\ \A i \in 1..Len(kv.h) :
              /\ kv.cur # 0
              /\ CompareCellWithOrder(ScannerCell(scan, kv.cur), ScannerCell(scan, kv.h[i]),
                                      EntryOrder(kv.cur), EntryOrder(kv.h[i])) <= 0
        /\ \A f \in 1..Len(files) :
              /\ HasCurrentCell(f) =>
                    TimesInHeap(f) + (IF kv.cur = f THEN 1 ELSE 0) = 1
              /\ ~HasCurrentCell(f) => TimesInHeap(f) = 0 /\ kv.cur # f

\* After a kvHeap.next three scanners are positioned on cells, two of them
\* in the heap, and the scanner that was advanced is on its second cell.
C28_Witness ==
    /\ pc = "ready" /\ kv.errVal = 0
    /\ Len(trace) = 1
    /\ kv.cur # 0 /\ Len(kv.h) = 2
    /\ \A f \in 1..Len(files) : HasCurrentCell(f)
    /\ \E f \in 1..Len(files) : scan[f].pos = 2

-----------------------------------------------------------------------------
(* The order of the input scanners.  A scan is run to a Next that returns  *)
(* false; then a RegionScanner is constructed over the same scanners,      *)
(* reopened, in a permuted slice, and run again.  hlog, empty during the   *)
(* first scan, holds during the second the cell keys the first emitted.    *)

PermFiles == 3      \* input scanners in SpecPerm
PermCells == 3      \* cells in all files together in SpecPerm

PermUniverse == SortedUniverse(CellsOver(Rows, {<<1>>}, 1, CellTypes))

PermOptionSet == { Options(0, NoEndKey), Options(0, <<2>>), Options(1, NoEndKey) }

InitPerm == InitWith(PermUniverse, PermFiles, PermCells, PermOptionSet)

SlicePermutations(n) ==
    { p \in [1..n -> 1..n] : \A i, j \in 1..n : p[i] = p[j] => i = j }

CellKey(c) == <<c.Row, c.Family, c.Qualifier, c.Timestamp>>

\* The multiset of the cell keys emitted: the number of times of each
EmittedKeys ==
    LET idx == { i \in TraceIdx : EmittedAt(i) }
    IN  [k \in { CellKey(trace[i].cell) : i \in idx } |->
            Cardinality({ i \in idx : CellKey(trace[i].cell) = k })]

\* NewRegionScanner over the scanners slice permuted, each scanner reopened
ScanPermuted ==
    /\ pc = "ready" /\ ret = "false"
    /\ hlog = <<>>
    /\ \E p \in SlicePermutations(Len(files)) :
          files' = [f \in 1..Len(files) |-> files[p[f]]]
    /\ hlog' = [out |-> EmittedKeys]
    /\ pc' = "new"
    /\ scan' = [f \in 1..Len(files) |-> [pos |-> 0, err |-> FALSE]]
    /\ kv' = [h |-> <<>>, cur |-> 0, errVal |-> 0]
    /\ deletes' = newDeleteTracker
    /\ currentRow' = <<>>
    /\ versionCounts' = EmptyMap
    /\ cell' = NoCell
    /\ err' = 0
    /\ ret' = "none"
    /\ trace' = <<>>
    /\ UNCHANGED <<failAt, opts, disk, rd, hs, blk, bf>>

NextPerm ==
    \/ Next
    \/ ScanPermuted

SpecPerm == InitPerm /\ [][NextPerm]_vars

\* C27: with MaxVersions = 0, the scan over a permuted scanners slice that
\* has come to a Next returning false has emitted the same multiset of cell
\* keys (row, family, qualifier, timestamp) as the scan over the slice as
\* it was.
C27_FileOrderKeepsEmittedKeys ==
    (opts.MaxVersions = 0 /\ hlog # <<>> /\ pc = "ready" /\ ret = "false") =>
        EmittedKeys = hlog.out

\* A Put and a tombstone covering it, and a Put nothing covers, all of the
\* same key but the type, in three files: the second scan has ended having
\* dequeued the three cells from the files in an order other than the
\* slice order, and emitted what the first did.
C27_Witness ==
    /\ opts.MaxVersions = 0 /\ opts.EndKey = NoEndKey
    /\ hlog # <<>> /\ pc = "ready" /\ ret = "false"
    /\ Len(trace) = 3
    /\ trace[1].what = "tombstone" /\ trace[2].what = VersionDeleted
    /\ trace[3].what = "emit"
    /\ CellKey(trace[1].cell) = CellKey(trace[2].cell)
    /\ trace[1].file > trace[2].file
    /\ DOMAIN hlog.out = {CellKey(trace[3].cell)}

-----------------------------------------------------------------------------
(* Seeking again.  Files over rows of one byte (the rows of TestSeek have  *)
(* one length), in one to three data blocks; a Scanner is moved by Next    *)
(* and Seek calls in any order, forward and backward, and seeks again.     *)

MaxReseeks == 2     \* Seek calls on one hfile.Scanner in SpecReseek
ReseekAfter == 4    \* in SpecReseek Seek comes after at most this many Next calls

ReseekUniverse ==
    SortedUniverse({ HCell(<<r>>, <<1>>, <<1>>, 1, CellTypePut, <<r + 10>>, <<>>) :
                        r \in 1..4 })

\* Row keys and full keys, of rows in and around the file
ReseekTargets ==
    [kind : {"row"}, row : {<<2>>, <<5>>}, qual : {<<>>}, ts : {0}]
    \cup [kind : {"full"}, row : {<<0>>, <<1>>, <<3>>, <<4>>}, qual : {<<1>>}, ts : {1}]

InitReseek ==
    /\ RIdle
    /\ \E o \in FuzzOptionSet : \E k \in 0..SeekCells :
       \E m \in Choices(k, Len(ReseekUniverse)) : \E cut \in Cuts(k) :
          LET stored == [i \in 1..k |-> ReseekUniverse[m[i]]]
          IN  InitFile(BlocksOf(stored, cut), stored, o)

\* Scanner.Seek(key) on a Scanner that has not failed, wherever it stands
HReseek ==
    /\ pc = "file" /\ hlog.ret \notin {"panic", "open error"}
    /\ hs.err = ""
    /\ hlog.seeks < MaxReseeks /\ hlog.calls <= ReseekAfter
    /\ \E t \in ReseekTargets :
       \E r \in {Call("ScannerSeekCall", <<rd, disk.bytes, hs, SeekKey(t)>>)} :
           /\ hs' = r.s
           /\ hlog' = [hlog EXCEPT !.out = IF r.ret THEN <<r.s.cell>> ELSE <<>>,
                                   !.reads = r.reads,
                                   !.ret = IF r.panic THEN "panic"
                                           ELSE IF r.ret THEN "true" ELSE "false",
                                   !.calls = 0, !.seeks = @ + 1,
                                   !.errAt = IF hs.stack = <<>> THEN 0 ELSE 1,
                                   !.key = t]
    /\ UNCHANGED <<disk, rd, blk, bf>>
    /\ UNCHANGED rvars

\* Next calls are counted from the last Seek; after the last Seek one Next
HReseekNext ==
    /\ hlog.seeks < MaxReseeks \/ hlog.calls < 1
    /\ HNextCell \/ HNextStop

NextReseek == HReseek \/ HReseekNext

SpecReseek == InitReseek /\ [][NextReseek]_vars

C25_WitnessAfterScan ==
    /\ SeekReturned /\ hlog.seeks = 1 /\ hlog.errAt = 1
    /\ Len(disk.stored) = 3
    /\ hlog.ret = "true"
    /\ hs.cell = disk.stored[3]

-----------------------------------------------------------------------------
(* Two Scanners of one Reader.  hs and hlog are pairs: the Scanners made   *)
(* by two rd.Scanner() calls and what each has yielded; Next calls on the  *)
(* two interleave in any order.  disk.rd is the Reader as Open returned it.*)

InitTwo ==
    /\ RIdle
    /\ blk = <<>> /\ bf = <<>>
    /\ \E o \in ScanOptionSet : \E k \in 0..ScanCells :
       \E m \in Choices(k, Len(HUniverse)) : \E cut \in Cuts(k) :
          LET stored == [i \in 1..k |-> WithTags(HUniverse[m[i]], o.includeTags)]
          IN  \E w \in {WriteCells(BlocksOf(stored, cut), k, o)} :
              \E x \in {Call("Open", <<w.bytes, w.trailer, o.includeTags, EncodingNone>>)} :
                  /\ x.st = "ok"
                  /\ disk = [bytes |-> w.bytes, stored |-> stored, rd |-> x.rd]
                  /\ rd = x.rd
                  /\ hs = <<NewScanner, NewScanner>>
                  /\ hlog = <<NoLog, NoLog>>

\* Scanner.Next on one of the two Scanners
TwoNext ==
    \E i \in 1..2 :
        /\ hlog[i].calls < MaxCalls
        /\ \E r \in {Call("ScannerNextCall", <<rd, disk.bytes, hs[i]>>)} :
              /\ hs' = [hs EXCEPT ![i] = r.s]
              /\ hlog' = [hlog EXCEPT ![i] =
                            [@ EXCEPT !.out = IF r.ret THEN Append(@, r.s.cell) ELSE @,
                                      !.reads = @ + r.reads,
                                      !.ret = IF r.panic THEN "panic"
                                              ELSE IF r.ret THEN "true" ELSE "false",
                                      !.calls = @ + 1]]
        /\ UNCHANGED <<disk, rd, blk, bf>>
        /\ UNCHANGED rvars

NextTwo == TwoNext

SpecTwo == InitTwo /\ [][NextTwo]_vars

\* A Scanner of the Reader run alone for n Next calls: [s, out, ret]
RECURSIVE SoloRun(_)
SoloRun(n) ==
    IF n = 0 THEN [s |-> NewScanner, out |-> <<>>, ret |-> "none"]
    ELSE LET p == SoloRun(n - 1)
         IN  \* the bound value is the result of the n-th call
             LET r == Call("ScannerNextCall", <<rd, disk.bytes, p.s>>)
             IN  [s |-> r.s,
                  out |-> IF r.ret THEN Append(p.out, r.s.cell) ELSE p.out,
                  ret |-> IF r.panic THEN "panic" ELSE IF r.ret THEN "true" ELSE "false"]

-----------------------------------------------------------------------------
(* parseCell on arbitrary buffers: the key length, value length and row    *)
(* length fields and the bytes after them (where the family length is      *)
(* read) take values below, at and above what the buffer holds; the buffer *)
(* ends anywhere, within the length fields too.  disk is the input         *)
(* [bytes, offset, includeTags], blk the value parseCell returned.         *)

MaxCellBuf == 24    \* bytes of the buffer from the offset on, in SpecCell

CellKeyLens == {0, 11, 12, 13, 14, 15, 16777216}
CellValLens == {0, 1, 16777216}
CellRowLens == {0, 1, 2, 3, 10, 11, 12, 13, 65535}
CellFill == {0, 1, 255}

InitCell ==
    /\ RIdle
    /\ rd = <<>> /\ hs = <<>> /\ hlog = <<>> /\ bf = <<>>
    /\ blk = <<>>
    /\ \E keyLen \in CellKeyLens : \E valLen \in CellValLens :
       \E rowLen \in CellRowLens : \E b \in CellFill :
       \E n \in 0..MaxCellBuf : \E offset \in {0, 2} : \E includeTags \in BOOLEAN :
          disk = [bytes |-> [i \in 1..offset |-> 9]
                              \o SubSeq(BE32(keyLen) \o BE32(valLen) \o BE16(rowLen)
                                            \o [i \in 1..MaxCellBuf |-> b], 1, n),
                  offset |-> offset, includeTags |-> includeTags]

ParseCell ==
    /\ pc = "file" /\ blk = <<>>
    /\ blk' = Call("parseCell", <<disk.bytes, disk.offset, disk.includeTags>>)
    /\ UNCHANGED <<disk, rd, hs, hlog, bf>>
    /\ UNCHANGED rvars

NextCell == ParseCell

SpecCell == InitCell /\ [][NextCell]_vars

\* C29: parseCell returns an error, or a Cell whose fields and length lie
\* inside data[offset:]; it never indexes past the end of the buffer.
C29_ParseCellInBounds ==
    blk # <<>> =>
        /\ blk.st \in {"ok", "err"}
        /\ blk.st = "ok" =>
              /\ blk.n <= Len(disk.bytes) - disk.offset
              /\ 8 + 2 + Len(blk.cell.Row) + 1 + Len(blk.cell.Family)
                   + Len(blk.cell.Qualifier) + 9 + Len(blk.cell.Value)
                   + Len(blk.cell.Tags) <= blk.n

\* What holds instead: parseCell panics only when the row fills the key,
\* the value is empty and the key ends where the buffer ends.
ParseCellPanicsOnlyAtBufferEnd ==
    (blk # <<>> /\ blk.st = "panic") =>
        /\ Uint16(disk.bytes, disk.offset + 8) + 2 = Uint32(disk.bytes, disk.offset)
        /\ Uint32(disk.bytes, disk.offset + 4) = 0
        /\ Len(disk.bytes) = disk.offset + 8 + Uint32(disk.bytes, disk.offset)

-----------------------------------------------------------------------------
(* FAST_DIFF blocks: cells of one family whose rows, qualifiers,           *)
(* timestamps, types and values differ and agree in every way, a row of    *)
(* 256 bytes among them (only a change of the high byte of the row length  *)
(* gives the common prefix 0), are encoded in any order, with each set of  *)
(* flags left unset, and decoded.  disk is the input [bytes, stored,       *)
(* includeTags, memstoreTS], blk what Decode returned and the cells the    *)
(* CellIterator reads from it.                                             *)

MaxDiffCells == 3   \* cells in a block of SpecDiff

DiffLongRow == [i \in 1..256 |-> 3]

DiffUniverse ==
    << HCell(<<1>>, <<1>>, <<>>, 1, CellTypePut, <<>>, <<>>),
       HCell(<<1>>, <<1>>, <<2>>, 1, CellTypePut, <<5>>, <<>>),
       HCell(<<1>>, <<1>>, <<2>>, 1, CellTypeDelete, <<7>>, <<>>),
       HCell(<<1>>, <<1>>, <<2, 3>>, 258, CellTypeDelete, <<5>>, <<>>),
       HCell(<<1, 2>>, <<1>>, <<2>>, 2, CellTypePut, <<5, 6>>, <<>>),
       HCell(<<2, 2>>, <<1>>, <<2>>, 16777217, CellTypePut, <<5, 6>>, <<>>),
       HCell(DiffLongRow, <<1>>, <<2>>, 1, CellTypePut, <<5>>, <<>>) >>

DiffFlags == {flagSameKeyLength, flagSameValueLength, flagSameType, flagSameValue}

InitDiff ==
    /\ RIdle
    /\ rd = <<>> /\ hs = <<>> /\ hlog = <<>> /\ bf = <<>>
    /\ blk = <<>>
    /\ \E k \in 0..MaxDiffCells : \E m \in [1..k -> 1..Len(DiffUniverse)] :
       \E drop \in SUBSET DiffFlags : \E o \in {<<FALSE, 1>>, <<TRUE, 200>>} :
       \E stored \in {SubSeq([i \in 1..k |-> WithTags(DiffUniverse[m[i]], o[1])], 1, k)} :
          disk = [bytes |-> Call("fdEncode", <<stored, drop, o[1], o[2]>>),
                  stored |-> stored, includeTags |-> o[1], memstoreTS |-> o[2]]

\* The cells a CellIterator yields from its position on
RECURSIVE IterateCells(_)
IterateCells(it) ==
    LET n == Call("CellIteratorNext", <<it>>)
    IN  IF n.panic \/ ~n.ok THEN <<>>
        ELSE <<n.it.cell>> \o IterateCells(n.it)

\* rd.decoder.Decode(data[2:]) and the iteration over what it returned
DecodeBlock ==
    /\ pc = "file" /\ blk = <<>>
    /\ \E r \in {Call("fastDiffDecode", <<disk.bytes, disk.includeTags>>)} :
          blk' = [st |-> r.st,
                  out |-> IF r.st = "ok" THEN r.out ELSE <<>>,
                  cells |-> IF r.st = "ok"
                            THEN IterateCells(NewCellIterator(r.out, disk.includeTags))
                            ELSE <<>>]
    /\ UNCHANGED <<disk, rd, hs, hlog, bf>>
    /\ UNCHANGED rvars

NextDiff == DecodeBlock

SpecDiff == InitDiff /\ [][NextDiff]_vars

\* C21: Decode of an encoded block succeeds and returns the cells that were
\* encoded, in their order, in the unencoded format: the same key and value
\* lengths and bytes, and read by the CellIterator the same row, family,
\* qualifier, timestamp, type, value and tags.
C21_DecodeReproducesCells ==
    blk # <<>> =>
        /\ blk.st = "ok"
        /\ blk.out = EncodeCells(disk.stored, disk.includeTags,
                                 [i \in 1..Len(disk.stored) |-> disk.memstoreTS])
        /\ blk.cells = disk.stored

\* Decoded: a block whose second cell has another row length in the high
\* byte (common prefix 0) and whose third has another in the low byte
\* (common prefix 1) with the key length, type and value of the second.
C21_Witness ==
    /\ blk # <<>> /\ blk.st = "ok"
    /\ Len(disk.stored) = 3
    /\ fdCommonPrefix(disk.stored[2], disk.stored[1]) = 0
    /\ fdCommonPrefix(disk.stored[3], disk.stored[2]) = 1
    /\ FlagSet(At(disk.bytes, 4 + Len(fdEncodeFirst(disk.stored[1], disk.includeTags,
                                                    disk.memstoreTS))),
               flagSameValue)
    /\ disk.includeTags /\ disk.stored[2].Tags # <<>>

====
